---- MODULE Spec2Model ----
(***************************************************************************)
(* State-machine model of the "What's in the Box" session game engine     *)
(* (wib_bot.py): the persisted tables of one session, the handlers that   *)
(* mutate them, and the seeded content generators.                        *)
(*                                                                         *)
(* One session key (guild, channel) is modelled: sessions are independent *)
(* rows keyed by that pair.  Every handler runs on one event loop, so the *)
(* code between two awaits is one atomic step; a handler that awaits      *)
(* while its database transaction is open is split at that await.         *)
(***************************************************************************)
EXTENDS Integers, Sequences, FiniteSets, TLC

\* ------------------------------------------------------------------ bounds
NumUsers == 2        \* user ids 1..NumUsers take part in the modelled runs
MaxIdx == 3          \* card buttons 0..MaxIdx are the ones pressed
MaxDelta == 2        \* submitted trivia values lie within answer +/- MaxDelta
MaxAttempts == 3     \* puzzle attempts recorded per box
MaxOpened == 7       \* cap of opened_boxes_count in the modelled runs
MaxTx == 2           \* reveal handlers suspended at the same time

\* ------------------------------------------------------- program constants
NumBoxes == 6
DeckSize == 10
GuaranteedPieces == 3
MaxTurns == 5
ElimThreshold == 3
ElimShown == 30      \* eligible[:30]: the players listed by /wib elim_eligible
OrderItems == 5

Users == 1 .. NumUsers
Boxes == 1 .. NumBoxes
NULL == 0            \* SQL NULL in an integer column (user ids are >= 1)
NoAction == "NULL"   \* SQL NULL in slot_state.pending_action

\* ------------------------------------------------------------ utilities
Min(a, b) == IF a <= b THEN a ELSE b
Abs(x) == IF x < 0 THEN -x ELSE x

RECURSIVE SumSeq(_)
SumSeq(s) == IF s = <<>> THEN 0 ELSE Head(s) + SumSeq(Tail(s))

\* ------------------------------------------------- seeded content generation
\* random.Random(x): the k-th draw of the stream seeded with x.  The Mersenne
\* twister itself is not reproduced; what the generators rely on is that the
\* stream is a function of the seed alone.
Rnd(x, k) == (((x % 10007) + 1) * (k * 131 + 7) + (x \div 10007) * 13 + k * k) % 10007

\* rng.choice(seq) / rng.randint(a, b) on draw k of stream x
Choice(x, k, seq) == seq[(Rnd(x, k) % Len(seq)) + 1]
RandInt(x, k, a, b) == a + (Rnd(x, k) % (b - a + 1))

WORD_BANK_1 == <<"ONE", "SILVER", "MIDNIGHT", "BRIGHT", "HIDDEN", "GOLDEN",
                 "QUIET", "FIRST", "SOFT", "BLUE", "CRISP", "FAIR">>
WORD_BANK_2 == <<"FINE", "STILL", "COLD", "TRUE", "SMALL", "WILD",
                 "GREEN", "DARK", "CLEAR", "LAST", "SWEET", "SHARP">>
WORD_BANK_3 == <<"AFTERNOON", "MORNING", "HORIZON", "PROMISE", "WHISPER", "GARDEN",
                 "LANTERN", "SUNRISE", "MOONLIGHT", "COMPASS", "VICTORY", "FIRELIGHT">>

\* The weighted card categories of a box tier, as rng.choices(population, weights)
TierTypes(box_id) ==
    IF box_id = 1 THEN <<"PIECE", "PASS">>
    ELSE IF 2 <= box_id /\ box_id <= 5 THEN <<"PIECE", "PASS", "STEAL">>
    ELSE <<"PIECE", "PASS", "STEAL", "DONATE", "WILDCARD">>

TierWeights(box_id) ==
    IF box_id = 1 THEN <<7, 3>>
    ELSE IF 2 <= box_id /\ box_id <= 5 THEN <<6, 2, 2>>
    ELSE <<5, 2, 2, 2, 1>>

\* rng.choices: the first category whose cumulative weight exceeds the draw
RECURSIVE PickWeighted(_, _, _)
PickWeighted(types, weights, r) ==
    IF Len(types) = 1 \/ r < Head(weights) THEN Head(types)
    ELSE PickWeighted(Tail(types), Tail(weights), r - Head(weights))

\* (variant: every box draws from the categories of box 6)
Choices_mega(x, k, box_id) ==
    PickWeighted(TierTypes(6), TierWeights(6), Rnd(x, k) % SumSeq(TierWeights(6)))

Choices(x, k, box_id) ==
    PickWeighted(TierTypes(box_id), TierWeights(box_id),
                 Rnd(x, k) % SumSeq(TierWeights(box_id)))

PieceCard(w) == [type |-> "PIECE", reveal |-> w]
PlainCard(t) == [type |-> t, reveal |-> "-"]

\* One of the 7 drawn cards (draws 4+2i and 5+2i of the stream)
DrawnCard(x, i, box_id) ==
    LET t == Choices(x, 4 + 2 * i, box_id)
    IN  IF t = "PIECE" THEN PieceCard(Choice(x, 5 + 2 * i, <<"W1", "W2", "W3">>))
        ELSE PlainCard(t)

\* rng.shuffle: for i = n-1 down to 1, swap x[i] with x[randbelow(i+1)]
Swap(s, a, b) == [s EXCEPT ![a] = s[b], ![b] = s[a]]

RECURSIVE Shuffle(_, _, _)
Shuffle(x, deck, i) ==
    IF i < 1 THEN deck
    ELSE Shuffle(x, Swap(deck, i + 1, (Rnd(x, 20 + i) % (i + 1)) + 1), i - 1)

gen_phrase_and_deck(seed, box_id) ==
    LET x == seed * 300 + box_id * 31
        phrase == <<Choice(x, 1, WORD_BANK_1), Choice(x, 2, WORD_BANK_2),
                    Choice(x, 3, WORD_BANK_3)>>
        fixed == <<PieceCard("W1"), PieceCard("W2"), PieceCard("W3")>>
        drawn == [i \in 1 .. (DeckSize - GuaranteedPieces) |-> DrawnCard(x, i, box_id)]
    IN  [phrase |-> phrase, deck |-> Shuffle(x, fixed \o drawn, DeckSize - 1)]

\* x = seed * 100 + box_id * 7 + player_count; template = draw 1, k = draw 2
gen_numeric_question(seed, box_id, player_count) ==
    LET x == seed * 100 + box_id * 7 + player_count
        tpl == (Rnd(x, 1) % 4) + 1
        k == RandInt(x, 2, 3, 11)
        ans == CASE tpl = 1 -> (seed % 97) + (player_count * k)
                 [] tpl = 2 -> (seed % 100) - k + (player_count * 2)
                 [] tpl = 3 -> (seed % 89) + player_count + k
                 [] OTHER   -> (seed % 73) + (k * player_count) - (box_id * 3)
    IN  [tpl |-> tpl, k |-> k, ans |-> ans]

\* the i-th value: rng.randint(10, 99), drawn again while it repeats an earlier one
RECURSIVE DrawValue(_, _, _)
DrawValue(x, k, values) ==
    LET v == RandInt(x, k, 10, 99)
    IN  IF \E j \in 1 .. Len(values) : values[j] = v
        THEN DrawValue(x, k + 7, values) ELSE v

RECURSIVE DrawValues(_, _, _)
DrawValues(x, i, values) ==
    IF i > OrderItems THEN values
    ELSE DrawValues(x, i + 1, Append(values, DrawValue(x, 1 + i, values)))

\* sorted(enumerate(values), key=value): the 0-based item index whose value has rank r
RankIndex(values, r) ==
    CHOOSE i \in 0 .. (Len(values) - 1) :
        Cardinality({j \in 1 .. Len(values) : values[j] < values[i + 1]}) = r - 1

gen_order_question(seed, box_id) ==
    LET x == seed * 200 + box_id * 19
        values == DrawValues(x, 1, <<>>)
    IN  [values |-> values,
         correct_indices |-> [r \in 1 .. OrderItems |-> RankIndex(values, r)]]

\* ------------------------------------------------------------------ state
VARIABLES
    sessions,            \* the sessions row of the session key
    lobby,               \* a JoinView has been posted
    participants,        \* user ids with a participants row (eliminated = 0)
    prizes,              \* boxes with a prizes row whose title is filled
    box_ownership,       \* box -> owner_user_id (NULL: no row)
    box_secrets,         \* box -> phrase, deck_json, revealed_json
    trivia_rounds,       \* box -> answer_int, is_active
    trivia_submissions,  \* box -> rows (user_id, value_int, submitted_at_ms)
    order_rounds,        \* box -> slot_user_id, correct_order_json, is_active
    slot_state,          \* box -> slot_user_id, turns_left, pending_action
    puzzle_attempts,     \* box -> rows in insertion order
    txs,                 \* CardButton callbacks awaiting with their transaction open
    views,               \* live previews, selection views and modals (captured values)
    opening              \* open_box handlers awaiting before ensure_box_secret

dbvars == <<sessions, participants, prizes, box_ownership, box_secrets, trivia_rounds,
            trivia_submissions, order_rounds, slot_state, puzzle_attempts>>
vars == <<sessions, lobby, participants, prizes, box_ownership, box_secrets,
          trivia_rounds, trivia_submissions, order_rounds, slot_state,
          puzzle_attempts, txs, views, opening>>

\* random.randint(100000, 999999): the seeds drawn in the modelled runs
Seeds == {120357}
\* random.randint(0, 9999) / random.randint(1, 99999): the preview salts drawn
Salts == {0, 1}

NoSession == [exists |-> FALSE, session_seed |-> 0, is_locked |-> FALSE, current_box |-> 1,
              opened_boxes_count |-> 0, eliminations_unlocked |-> FALSE]
NoSecret == [exists |-> FALSE, phrase |-> <<>>, deck |-> <<>>, revealed |-> {}]
NoTrivia == [exists |-> FALSE, answer_int |-> 0, is_active |-> FALSE]
NoOrder == [exists |-> FALSE, slot_user_id |-> NULL, correct_order |-> <<>>,
            is_active |-> FALSE]
NoSlot == [exists |-> FALSE, slot_user_id |-> NULL, turns_left |-> 0,
           pending_action |-> NoAction]
NoOwners == [b \in Boxes |-> NULL]

\* sqlite3.connect per handler: a write needs the database's write lock, which an
\* open transaction of another connection holds until it commits or rolls back.
\* The waiting writer blocks the one event loop, so the holder cannot commit and
\* the writer ends with "database is locked": it writes nothing.
\* (variant: connections that never wait for one another's transactions)
db_unlocked(open) == TRUE

db(open) == open = {}

Writable == db(txs)

\* now_ms() for a new row of a table: not earlier than any stamp already stored in
\* it, possibly equal to the latest one (same millisecond).  Stamps are kept
\* relative to the first row of the table.
MaxOf(S) == IF S = {} THEN 0 ELSE CHOOSE m \in S : \A n \in S : n <= m
now_ms(stamps) == IF stamps = {} THEN {1} ELSE {MaxOf(stamps), MaxOf(stamps) + 1}

\* ensure_session
ensure_session(seed) ==
    IF sessions.exists THEN sessions
    ELSE [exists |-> TRUE, session_seed |-> seed, is_locked |-> FALSE, current_box |-> 1,
          opened_boxes_count |-> 0, eliminations_unlocked |-> FALSE]

get_participant_count == Cardinality(participants)

\* (variant: no participants row is asked for)
is_registered_anyone(user_id) == TRUE

is_registered(user_id) == user_id \in participants

\* ensure_box_secret: the rows after the call
SecretsAfterEnsure(secrets, seed, box_id) ==
    IF secrets[box_id].exists THEN secrets
    ELSE LET g == gen_phrase_and_deck(seed, box_id)
         IN  [secrets EXCEPT ![box_id] = [exists |-> TRUE, phrase |-> g.phrase,
                                          deck |-> g.deck, revealed |-> {}]]

SlotsAfterEnsure(secrets, slots, box_id) ==
    IF secrets[box_id].exists \/ slots[box_id].exists THEN slots
    ELSE [slots EXCEPT ![box_id] = [exists |-> TRUE, slot_user_id |-> NULL,
                                    turns_left |-> 0, pending_action |-> NoAction]]

\* ------------------------------------------------------------ views
View(kind, box_id, user_id, ans, correct, owners, targets) ==
    [kind |-> kind, box_id |-> box_id, slot_user_id |-> user_id, ans |-> ans,
     correct |-> correct, owners |-> owners, targets |-> targets, chosen_box |-> 0]

MaxViews == 1        \* views alive at the same time in the modelled runs

\* A new view is posted; views time out, and in the modelled runs the oldest ones
\* have done so when more than MaxViews would be alive.
Posted(v) ==
    IF v \in views THEN {views}
    ELSE IF Cardinality(views) < MaxViews THEN {views \cup {v}}
    ELSE {(views \ {w}) \cup {v} : w \in views}

view_timeout(v) ==
    /\ views' = views \ {v}
    /\ UNCHANGED <<dbvars, lobby, txs, opening>>

\* ------------------------------------------------------------ lobby
Init ==
    /\ sessions = NoSession
    /\ lobby = FALSE
    /\ participants = {}
    /\ prizes = {}
    /\ box_ownership = NoOwners
    /\ box_secrets = [b \in Boxes |-> NoSecret]
    /\ trivia_rounds = [b \in Boxes |-> NoTrivia]
    /\ trivia_submissions = [b \in Boxes |-> {}]
    /\ order_rounds = [b \in Boxes |-> NoOrder]
    /\ slot_state = [b \in Boxes |-> NoSlot]
    /\ puzzle_attempts = [b \in Boxes |-> <<>>]
    /\ txs = {}
    /\ views = {}
    /\ opening = {}

\* /wib lobby
lobby_cmd(seed) ==
    /\ sessions.exists \/ Writable
    /\ ~ensure_session(seed).is_locked
    /\ sessions' = ensure_session(seed)
    /\ lobby' = TRUE
    /\ UNCHANGED <<participants, prizes, box_ownership, box_secrets, trivia_rounds,
                   trivia_submissions, order_rounds, slot_state, puzzle_attempts,
                   txs, views, opening>>

\* (variant: the Join button does not look at is_locked)
join_button_unlocked(user_id) ==
    /\ lobby
    /\ sessions.exists
    /\ Writable
    /\ participants' = participants \cup {user_id}
    /\ UNCHANGED <<sessions, lobby, prizes, box_ownership, box_secrets, trivia_rounds,
                   trivia_submissions, order_rounds, slot_state, puzzle_attempts,
                   txs, views, opening>>

\* JoinView.join_button
join_button(user_id) ==
    /\ lobby
    /\ sessions.exists
    /\ ~sessions.is_locked
    /\ Writable
    /\ participants' = participants \cup {user_id}
    /\ UNCHANGED <<sessions, lobby, prizes, box_ownership, box_secrets, trivia_rounds,
                   trivia_submissions, order_rounds, slot_state, puzzle_attempts,
                   txs, views, opening>>

\* /wib lock
lock(seed) ==
    LET sess == ensure_session(seed)
    IN  /\ Writable
        /\ ~sess.is_locked
        /\ sessions' = [sess EXCEPT !.is_locked = TRUE]
        /\ box_secrets' = SecretsAfterEnsure(box_secrets, sess.session_seed, 1)
        /\ slot_state' = SlotsAfterEnsure(box_secrets, slot_state, 1)
        /\ UNCHANGED <<lobby, participants, prizes, box_ownership, trivia_rounds,
                       trivia_submissions, order_rounds, puzzle_attempts,
                       txs, views, opening>>

\* (variant: the preview is drawn from a stream that the trivia rows written
\* so far have advanced)
wib_q_shared(seed, salt) ==
    LET sess == ensure_session(seed)
        box_id == sess.current_box
        drawn == Cardinality({b \in Boxes : trivia_rounds[b].exists})
        g == gen_numeric_question(sess.session_seed + salt + drawn, box_id,
                                  get_participant_count)
    IN  /\ sessions.exists \/ Writable
        /\ sessions' = sess
        /\ views' \in (IF sess.is_locked
                       THEN Posted(View("q", box_id, NULL, g.ans, <<>>, NoOwners, {}))
                       ELSE {views})
        /\ UNCHANGED <<lobby, participants, prizes, box_ownership, box_secrets,
                       trivia_rounds, trivia_submissions, order_rounds, slot_state,
                       puzzle_attempts, txs, opening>>

\* ------------------------------------------------------------ trivia
\* /wib_q: ensure_session, then the preview of the current box's question
wib_q(seed, salt) ==
    LET sess == ensure_session(seed)
        box_id == sess.current_box
        g == gen_numeric_question(sess.session_seed + salt, box_id, get_participant_count)
    IN  /\ sessions.exists \/ Writable
        /\ sessions' = sess
        /\ views' \in (IF sess.is_locked
                       THEN Posted(View("q", box_id, NULL, g.ans, <<>>, NoOwners, {}))
                       ELSE {views})
        /\ UNCHANGED <<lobby, participants, prizes, box_ownership, box_secrets,
                       trivia_rounds, trivia_submissions, order_rounds, slot_state,
                       puzzle_attempts, txs, opening>>

\* wib_q.do_preview.on_regen: the same preview with another salt
q_on_regen(v, salt) ==
    LET g == gen_numeric_question(sessions.session_seed + salt, v.box_id,
                                  get_participant_count)
    IN  /\ v \in views
        /\ v.kind = "q"
        /\ views' = (views \ {v}) \cup {[v EXCEPT !.ans = g.ans]}
        /\ UNCHANGED <<dbvars, lobby, txs, opening>>

\* (variant: a publish without the DELETE FROM trivia_submissions)
q_on_publish_kept(v) ==
    /\ v \in views
    /\ v.kind = "q"
    /\ Writable
    /\ trivia_rounds' = [trivia_rounds EXCEPT ![v.box_id] =
                            [exists |-> TRUE, answer_int |-> v.ans, is_active |-> TRUE]]
    /\ UNCHANGED <<sessions, lobby, participants, prizes, box_ownership, box_secrets,
                   trivia_submissions, order_rounds, slot_state, puzzle_attempts, txs,
                   views, opening>>

\* wib_q.do_preview.on_publish: box, question and answer are the previewed ones
q_on_publish(v) ==
    /\ v \in views
    /\ v.kind = "q"
    /\ Writable
    /\ trivia_rounds' = [trivia_rounds EXCEPT ![v.box_id] =
                            [exists |-> TRUE, answer_int |-> v.ans, is_active |-> TRUE]]
    /\ trivia_submissions' = [trivia_submissions EXCEPT ![v.box_id] = {}]
    /\ UNCHANGED <<sessions, lobby, participants, prizes, box_ownership, box_secrets,
                   order_rounds, slot_state, puzzle_attempts, txs, views, opening>>

\* The numbers players send for a round: around its answer
Guesses(box_id) ==
    {trivia_rounds[box_id].answer_int + d : d \in (0 - MaxDelta) .. MaxDelta}

\* The text typed into the answer modal: the number n written as digits (with a
\* minus sign when negative), the same with blanks around it, with a plus sign,
\* with a decimal point, or nothing at all
TypedForms == {"digits", "blanks", "plus", "point", "empty"}
TypedNumbers(S) == [form : TypedForms, n : S]

\* norm_num: strip, then -?\d+ or None
NoNumber == [valid |-> FALSE, val |-> 0]
norm_num(s) ==
    IF s.form \in {"digits", "blanks"} THEN [valid |-> TRUE, val |-> s.n] ELSE NoNumber

Stamps(rows) == {r.submitted_at_ms : r \in rows}

\* (variant: a lookup that never finds the row)
SubmissionsOf_none(rows, user_id) == {}

\* The trivia_submissions rows of a box with the key user_id
SubmissionsOf(rows, user_id) == {r \in rows : r.user_id = user_id}

\* The checks and the INSERT shared by NumericAnswerModal.on_submit and /wib num;
\* the INSERT raises on a row with the same primary key
SubmitNumber(box_id, user_id, val, at) ==
    /\ sessions.exists
    /\ sessions.is_locked
    /\ is_registered(user_id)
    /\ trivia_rounds[box_id].exists
    /\ trivia_rounds[box_id].is_active
    /\ SubmissionsOf(trivia_submissions[box_id], user_id) = {}    \* SELECT 1 ... fetchone()
    /\ Writable
    /\ SubmissionsOf(trivia_submissions[box_id], user_id) = {}    \* PRIMARY KEY of the INSERT
    /\ trivia_submissions' = [trivia_submissions EXCEPT ![box_id] =
            @ \cup {[user_id |-> user_id, value_int |-> val, submitted_at_ms |-> at]}]
    /\ UNCHANGED <<sessions, lobby, participants, prizes, box_ownership, box_secrets,
                   trivia_rounds, order_rounds, slot_state, puzzle_attempts,
                   txs, views, opening>>

\* NumericAnswerModal.on_submit: the box is the one of the published view
NumericAnswerModal_on_submit(box_id, user_id, typed, at) ==
    /\ norm_num(typed).valid
    /\ trivia_rounds[box_id].exists
    /\ SubmitNumber(box_id, user_id, norm_num(typed).val, at)

\* /wib num: the box is the session's current box
num(user_id, val, at) ==
    /\ sessions.exists
    /\ SubmitNumber(sessions.current_box, user_id, val, at)

\* fetchall() of a SELECT without ORDER BY: the rows in any order
Fetchall(rows) ==
    {q \in [1 .. Cardinality(rows) -> rows] :
        \A i, j \in 1 .. Cardinality(rows) : i # j => q[i] # q[j]}

\* (variant: a key without its timestamp)
KeyLE_first_only(a, b) == a[1] <= b[1]

\* list.sort(key=...): stable, rows with equal keys keep their order
KeyLE(a, b) == a[1] < b[1] \/ (a[1] = b[1] /\ a[2] <= b[2])

RECURSIVE InsertByKey(_, _)
InsertByKey(sorted, x) ==
    IF sorted = <<>> THEN <<x>>
    ELSE IF KeyLE(Head(sorted).key, x.key)
    THEN <<Head(sorted)>> \o InsertByKey(Tail(sorted), x)
    ELSE <<x>> \o sorted

RECURSIVE SortByKey(_)
SortByKey(q) ==
    IF q = <<>> THEN <<>>
    ELSE InsertByKey(SortByKey(SubSeq(q, 1, Len(q) - 1)), q[Len(q)])

\* compute_trivia_outcome on the fetched rows `subs`: None, or (user_id, value_int, exact)
NoOutcome == [user_id |-> NULL, value_int |-> 0, exact |-> FALSE]

compute_trivia_outcome(subs, correct) ==
    LET exacts == SelectSeq(subs, LAMBDA r : r.value_int = correct)
        by_time == SortByKey([i \in 1 .. Len(exacts) |->
                       [key |-> <<0, exacts[i].submitted_at_ms>>, r |-> exacts[i]]])
        scored == SortByKey([i \in 1 .. Len(subs) |->
                      [key |-> <<Abs(subs[i].value_int - correct), subs[i].submitted_at_ms>>,
                       r |-> subs[i]]])
    IN  IF subs = <<>> THEN NoOutcome
        ELSE IF exacts # <<>>
        THEN [user_id |-> by_time[1].r.user_id, value_int |-> by_time[1].r.value_int,
              exact |-> TRUE]
        ELSE [user_id |-> scored[1].r.user_id, value_int |-> scored[1].r.value_int,
              exact |-> FALSE]

\* (variant: an upsert that sets the holder only and starts them with a turn)
SlotAfterReveal_turn(winner_id) ==
    [exists |-> TRUE, slot_user_id |-> winner_id, turns_left |-> 1,
     pending_action |-> NoAction]

\* The slot_state row /wib reveal upserts
SlotAfterReveal(winner_id) ==
    [exists |-> TRUE, slot_user_id |-> winner_id, turns_left |-> 0,
     pending_action |-> NoAction]

\* /wib reveal
reveal(winner_id) ==
    LET box_id == sessions.current_box
        tr == trivia_rounds[box_id]
    IN  /\ sessions.exists
        /\ sessions.is_locked
        /\ tr.exists
        /\ tr.is_active
        /\ Writable
        /\ \E subs \in Fetchall(trivia_submissions[box_id]) :
              winner_id = compute_trivia_outcome(subs, tr.answer_int).user_id
        /\ trivia_rounds' = [trivia_rounds EXCEPT ![box_id].is_active = FALSE]
        /\ slot_state' = [slot_state EXCEPT ![box_id] = SlotAfterReveal(winner_id)]
        /\ UNCHANGED <<sessions, lobby, participants, prizes, box_ownership, box_secrets,
                       trivia_submissions, order_rounds, puzzle_attempts,
                       txs, views, opening>>

\* ------------------------------------------------------------ ordering
\* /wib q_order: the preview is bound to the slot holder read now
q_order(salt) ==
    LET box_id == sessions.current_box
        slot == slot_state[box_id]
        g == gen_order_question(sessions.session_seed + salt, box_id)
    IN  /\ sessions.exists
        /\ sessions.is_locked
        /\ slot.exists
        /\ slot.slot_user_id # NULL
        /\ views' \in Posted(View("order", box_id, slot.slot_user_id, 0,
                                  g.correct_indices, NoOwners, {}))
        /\ UNCHANGED <<dbvars, lobby, txs, opening>>

\* q_order.do_preview.on_publish
order_on_publish(v) ==
    /\ v \in views
    /\ v.kind = "order"
    /\ Writable
    /\ order_rounds' = [order_rounds EXCEPT ![v.box_id] =
                           [exists |-> TRUE, slot_user_id |-> v.slot_user_id,
                            correct_order |-> v.correct, is_active |-> TRUE]]
    /\ UNCHANGED <<sessions, lobby, participants, prizes, box_ownership, box_secrets,
                   trivia_rounds, trivia_submissions, slot_state, puzzle_attempts,
                   txs, views, opening>>

Labels == <<"A", "B", "C", "D", "E">>

\* x.strip().upper() on the letters players type
Upper(x) ==
    CASE x = "a" -> "A" [] x = "b" -> "B" [] x = "c" -> "C" [] x = "d" -> "D"
      [] x = "e" -> "E" [] x = " A" -> "A" [] OTHER -> x

\* ord(x) - 65
LetterIndex(x) == CHOOSE i \in 0 .. (OrderItems - 1) : Labels[i + 1] = x

\* sorted(letters) == ["A", "B", "C", "D", "E"]
ValidOrder(letters) ==
    /\ Len(letters) = OrderItems
    /\ \A i \in 1 .. OrderItems : \E j \in 1 .. OrderItems : letters[j] = Labels[i]

\* (variant: a count of the letters that come before their place in the key)
OrderScore_below(letters, correct) ==
    Cardinality({i \in 1 .. OrderItems : LetterIndex(letters[i]) <= correct[i]})

\* turns = sum(1 for i in range(5) if submitted_indices[i] == correct[i])
OrderScore(letters, correct) ==
    Cardinality({i \in 1 .. OrderItems : LetterIndex(letters[i]) = correct[i]})

\* The answers typed for a round whose key is `correct`: the key itself (once in
\* lower case), the key with its first two places swapped, the key rotated by
\* one, and an answer that repeats a letter.
OrderInputs(correct) ==
    LET c == IF Len(correct) = OrderItems THEN correct ELSE <<0, 1, 2, 3, 4>>
        key == [i \in 1 .. OrderItems |-> Labels[c[i] + 1]]
    IN  { key,
          [key EXCEPT ![1] = IF key[1] = "A" THEN "a" ELSE key[1],
                      ![2] = IF key[2] = "A" THEN " A" ELSE key[2]],
          [key EXCEPT ![1] = key[2], ![2] = key[1]],
          [i \in 1 .. OrderItems |-> key[(i % OrderItems) + 1]],
          [key EXCEPT ![1] = key[2]] }

\* (variant: /wib order without the comparison of the user with the round's user)
order_anyone(user_id, typed) ==
    LET letters == [i \in 1 .. Len(typed) |-> Upper(typed[i])]
        box_id == sessions.current_box
        orow == order_rounds[box_id]
        turns == OrderScore(letters, orow.correct_order)
    IN  /\ ValidOrder(letters)
        /\ sessions.exists
        /\ sessions.is_locked
        /\ orow.exists
        /\ orow.is_active
        /\ Writable
        /\ order_rounds' = [order_rounds EXCEPT ![box_id].is_active = FALSE]
        /\ slot_state' = IF slot_state[box_id].exists
                         THEN [slot_state EXCEPT ![box_id].turns_left = turns,
                                                 ![box_id].pending_action = NoAction]
                         ELSE slot_state
        /\ views' \in (IF turns > 0
                       THEN Posted(View("puzzle", box_id, NULL, 0, <<>>, NoOwners, {}))
                       ELSE {views})
        /\ UNCHANGED <<sessions, lobby, participants, prizes, box_ownership, box_secrets,
                       trivia_rounds, trivia_submissions, puzzle_attempts, txs, opening>>

\* /wib order
order(user_id, typed) ==
    LET letters == [i \in 1 .. Len(typed) |-> Upper(typed[i])]
        box_id == sessions.current_box
        orow == order_rounds[box_id]
        turns == OrderScore(letters, orow.correct_order)
    IN  /\ ValidOrder(letters)
        /\ sessions.exists
        /\ sessions.is_locked
        /\ orow.exists
        /\ orow.is_active
        /\ user_id = orow.slot_user_id
        /\ Writable
        /\ order_rounds' = [order_rounds EXCEPT ![box_id].is_active = FALSE]
        /\ slot_state' = IF slot_state[box_id].exists
                         THEN [slot_state EXCEPT ![box_id].turns_left = turns,
                                                 ![box_id].pending_action = NoAction]
                         ELSE slot_state
        /\ views' \in (IF turns > 0
                       THEN Posted(View("puzzle", box_id, NULL, 0, <<>>, NoOwners, {}))
                       ELSE {views})
        /\ UNCHANGED <<sessions, lobby, participants, prizes, box_ownership, box_secrets,
                       trivia_rounds, trivia_submissions, puzzle_attempts, txs, opening>>

\* ------------------------------------------------------------ cards
WildcardEffects(box_id) ==
    {"PASS", "STEAL", "BONUS_TURN"} \cup (IF box_id = 6 THEN {"DONATE"} ELSE {})

\* (variant: the checks without the comparison of the user with the slot holder)
CanReveal_any_user(box_id, user_id, idx) ==
    /\ slot_state[box_id].exists
    /\ slot_state[box_id].slot_user_id # NULL
    /\ slot_state[box_id].turns_left > 0
    /\ slot_state[box_id].pending_action = NoAction
    /\ box_secrets[box_id].exists
    /\ idx \notin box_secrets[box_id].revealed

\* (variant: the checks without the look at revealed_json)
CanReveal_again(box_id, user_id, idx) ==
    /\ slot_state[box_id].exists
    /\ slot_state[box_id].slot_user_id # NULL
    /\ slot_state[box_id].slot_user_id = user_id
    /\ slot_state[box_id].turns_left > 0
    /\ slot_state[box_id].pending_action = NoAction
    /\ box_secrets[box_id].exists

\* The eligibility checks of CardButton.callback, on the committed rows
CanReveal(box_id, user_id, idx) ==
    /\ slot_state[box_id].exists
    /\ slot_state[box_id].slot_user_id # NULL
    /\ slot_state[box_id].slot_user_id = user_id
    /\ slot_state[box_id].turns_left > 0
    /\ slot_state[box_id].pending_action = NoAction
    /\ box_secrets[box_id].exists
    /\ idx \notin box_secrets[box_id].revealed

\* (variant: the bonus added to the turns as read, without the cap)
TurnsAfter_uncapped(turns_left, card, chosen) ==
    IF card.type = "WILDCARD" /\ chosen = "BONUS_TURN"
    THEN turns_left + 1
    ELSE turns_left - 1

\* turns_left after the reveal of `card`: one less, and for a wildcard resolved
\* to BONUS_TURN one more again, capped
\* (variant: a PIECE card costs no turn)
TurnsAfter_free(turns_left, card, chosen) ==
    IF card.type = "WILDCARD" /\ chosen = "BONUS_TURN"
    THEN Min(MaxTurns, (turns_left - 1) + 1)
    ELSE IF card.type = "PIECE" THEN turns_left
    ELSE turns_left - 1

TurnsAfter(turns_left, card, chosen) ==
    IF card.type = "WILDCARD" /\ chosen = "BONUS_TURN"
    THEN Min(MaxTurns, (turns_left - 1) + 1)
    ELSE turns_left - 1

\* (variant: only a wildcard sets pending_action)
PendingAfter_wildcard_only(card, chosen) ==
    IF card.type = "WILDCARD" /\ chosen # "BONUS_TURN" THEN chosen ELSE NoAction

\* (variant: a wildcard stores whatever it resolved to)
PendingAfter_stored(card, chosen) ==
    IF card.type \in {"PASS", "STEAL", "DONATE"} THEN card.type
    ELSE IF card.type = "WILDCARD" THEN chosen
    ELSE NoAction

\* pending_action the reveal of `card` sets (NoAction: none)
PendingAfter(card, chosen) ==
    IF card.type \in {"PASS", "STEAL", "DONATE"} THEN card.type
    ELSE IF card.type = "WILDCARD" /\ chosen # "BONUS_TURN" THEN chosen
    ELSE NoAction

\* CardButton.callback up to its await: the checks, the two UPDATEs (uncommitted)
\* and, for a wildcard, random.choice(effects)
CardButton_callback(user_id, idx, chosen) ==
    LET box_id == sessions.current_box
        card == box_secrets[box_id].deck[idx + 1]
    IN  /\ sessions.exists
        /\ CanReveal(box_id, user_id, idx)
        /\ Writable
        /\ Cardinality(txs) < MaxTx
        /\ IF card.type = "WILDCARD" THEN chosen \in WildcardEffects(box_id)
           ELSE chosen = "-"
        /\ txs' = txs \cup {[box_id |-> box_id, idx |-> idx, user_id |-> user_id,
                             revealed |-> box_secrets[box_id].revealed \cup {idx},
                             turns_left |-> TurnsAfter(slot_state[box_id].turns_left,
                                                       card, chosen),
                             pending_action |-> PendingAfter(card, chosen)]}
        /\ UNCHANGED <<dbvars, lobby, views, opening>>

\* CardButton.callback after its await: the pending_action UPDATE and the commit
CardButton_commit(t) ==
    /\ t \in txs
    /\ txs' = txs \ {t}
    /\ box_secrets' = [box_secrets EXCEPT ![t.box_id].revealed = t.revealed]
    /\ slot_state' = [slot_state EXCEPT
            ![t.box_id].turns_left = t.turns_left,
            ![t.box_id].pending_action =
                IF t.pending_action # NoAction THEN t.pending_action ELSE @]
    /\ UNCHANGED <<sessions, lobby, participants, prizes, box_ownership, trivia_rounds,
                   trivia_submissions, order_rounds, puzzle_attempts, views, opening>>

\* CardButton.callback when the awaited send raises: con.close() rolls back
CardButton_rollback(t) ==
    /\ t \in txs
    /\ txs' = txs \ {t}
    /\ UNCHANGED <<dbvars, lobby, views, opening>>

\* ------------------------------------------------------------ PASS / STEAL / DONATE
\* /wib pass_show
pass_show ==
    LET box_id == sessions.current_box
        slot == slot_state[box_id]
        players == participants \ {slot.slot_user_id}
    IN  /\ sessions.exists
        /\ slot.exists
        /\ slot.pending_action = "PASS"
        /\ slot.slot_user_id # NULL
        /\ players # {}
        /\ views' \in Posted(View("pass", box_id, slot.slot_user_id, 0, <<>>,
                                  NoOwners, players))
        /\ UNCHANGED <<dbvars, lobby, txs, opening>>

\* pass_show.PassSelect.callback, pressed by the user the view names
PassSelect_callback(v, target_id) ==
    /\ v \in views
    /\ v.kind = "pass"
    /\ target_id \in v.targets
    /\ Writable
    /\ slot_state' = IF slot_state[v.box_id].exists
                     THEN [slot_state EXCEPT ![v.box_id].slot_user_id = target_id,
                                             ![v.box_id].turns_left = 0,
                                             ![v.box_id].pending_action = NoAction]
                     ELSE slot_state
    /\ UNCHANGED <<sessions, lobby, participants, prizes, box_ownership, box_secrets,
                   trivia_rounds, trivia_submissions, order_rounds, puzzle_attempts,
                   txs, views, opening>>

StealableBoxes == 1 .. 5

\* /wib steal_show: one button per box_ownership row of boxes 1..5
steal_show ==
    LET box_id == sessions.current_box
        slot == slot_state[box_id]
        rows == [b \in Boxes |-> IF b \in StealableBoxes THEN box_ownership[b] ELSE NULL]
    IN  /\ sessions.exists
        /\ slot.exists
        /\ slot.pending_action = "STEAL"
        /\ slot.slot_user_id # NULL
        /\ \E b \in Boxes : rows[b] # NULL
        /\ views' \in Posted(View("steal", box_id, slot.slot_user_id, 0, <<>>, rows, {}))
        /\ UNCHANGED <<dbvars, lobby, txs, opening>>

\* steal_show.StealButton.callback, pressed by the user the view names.  The
\* tests are on the values captured by steal_show (slot_user_id, owner_id), the
\* UPDATE of box_ownership has no condition on the owner, and nothing is read
\* back from slot_state.  The buttons are disabled only after the commit, on the
\* pressed message: a press sent before the edit arrives, or on the message of
\* a second /wib steal_show, runs the same callback on the same captured
\* values, so the view stays.
StealButton_callback(v, box_to_steal) ==
    /\ v \in views
    /\ v.kind = "steal"
    /\ v.owners[box_to_steal] # NULL
    /\ v.owners[box_to_steal] # v.slot_user_id
    /\ Writable
    /\ box_ownership' = IF box_ownership[box_to_steal] # NULL
                        THEN [box_ownership EXCEPT ![box_to_steal] = v.slot_user_id]
                        ELSE box_ownership
    /\ slot_state' = IF slot_state[v.box_id].exists
                     THEN [slot_state EXCEPT ![v.box_id].pending_action = NoAction]
                     ELSE slot_state
    /\ UNCHANGED <<sessions, lobby, participants, prizes, box_secrets, trivia_rounds,
                   trivia_submissions, order_rounds, puzzle_attempts, txs, views, opening>>

\* /wib donate_show
donate_show ==
    LET box_id == sessions.current_box
        slot == slot_state[box_id]
        owned == [b \in Boxes |-> IF b \in StealableBoxes
                                     /\ box_ownership[b] = slot.slot_user_id
                                  THEN box_ownership[b] ELSE NULL]
        recipients == participants \ {slot.slot_user_id}
    IN  /\ sessions.exists
        /\ box_id = 6
        /\ slot.exists
        /\ slot.pending_action = "DONATE"
        /\ slot.slot_user_id # NULL
        /\ \E b \in Boxes : owned[b] # NULL
        /\ recipients # {}
        /\ views' \in Posted(View("donate", box_id, slot.slot_user_id, 0, <<>>,
                                  owned, recipients))
        /\ UNCHANGED <<dbvars, lobby, txs, opening>>

\* donate_show.BoxSelect.callback, pressed by the user the view names
BoxSelect_callback(v, b) ==
    /\ v \in views
    /\ v.kind = "donate"
    /\ v.owners[b] # NULL
    /\ v.chosen_box # b
    /\ views' = (views \ {v}) \cup {[v EXCEPT !.chosen_box = b]}
    /\ UNCHANGED <<dbvars, lobby, txs, opening>>

\* donate_show.RecipientSelect.callback, pressed by the user the view names.
\* The slot holder, the current box and the recipients are the values captured
\* by donate_show; only the UPDATE's WHERE owner_user_id = slot_user_id looks
\* at the table.  The view is left as posted for the reason given at
\* StealButton_callback.
RecipientSelect_callback(v, target_id) ==
    /\ v \in views
    /\ v.kind = "donate"
    /\ v.chosen_box # 0
    /\ target_id \in v.targets
    /\ Writable
    /\ box_ownership' = IF box_ownership[v.chosen_box] = v.slot_user_id
                        THEN [box_ownership EXCEPT ![v.chosen_box] = target_id]
                        ELSE box_ownership
    /\ slot_state' = IF slot_state[v.box_id].exists
                     THEN [slot_state EXCEPT ![v.box_id].pending_action = NoAction]
                     ELSE slot_state
    /\ UNCHANGED <<sessions, lobby, participants, prizes, box_secrets, trivia_rounds,
                   trivia_submissions, order_rounds, puzzle_attempts, txs, views, opening>>

\* ------------------------------------------------------------ puzzle
\* norm_word: strip, upper-case, drop what is not A-Z, 0-9 or space.  Words that
\* are upper-case letters already are left as they are.
norm_word(w) ==
    CASE w = "nope!" -> "NOPE" [] w = " Nope" -> "NOPE" [] OTHER -> w

\* What players type for a box: its phrase, the phrase with a wrong last word,
\* and three wrong words.
GuessInputs(box_id) ==
    LET p == gen_phrase_and_deck(sessions.session_seed, box_id).phrase
    IN  { p, <<p[1], p[2], "nope!">>, <<" Nope", "NOPE", "nope!">> }

\* SubmitPuzzleView.submit_puzzle: the modal opens for the slot holder of the view's box
submit_puzzle(v, user_id) ==
    /\ v \in views
    /\ v.kind = "puzzle"
    /\ slot_state[v.box_id].exists
    /\ slot_state[v.box_id].slot_user_id # NULL
    /\ slot_state[v.box_id].slot_user_id = user_id
    /\ views' \in Posted(View("puzzle_modal", v.box_id, user_id, 0, <<>>, NoOwners, {}))
    /\ UNCHANGED <<dbvars, lobby, txs, opening>>

AttemptIds(box_id) == {puzzle_attempts[box_id][i].attempt_id :
                          i \in 1 .. Len(puzzle_attempts[box_id])}
AttemptRows(box_id) == {puzzle_attempts[box_id][i] : i \in 1 .. Len(puzzle_attempts[box_id])}

\* (variant: PuzzleModal.on_submit with MAX(attempt_id) taken over the unchecked rows)
PuzzleModal_on_submit_unchecked(v, typed, at) ==
    LET box_id == v.box_id
        attempt_id == MaxOf({a.attempt_id : a \in {r \in AttemptRows(box_id) : ~r.checked}}) + 1
    IN  /\ v \in views
        /\ v.kind = "puzzle_modal"
        /\ Len(puzzle_attempts[box_id]) < MaxAttempts
        /\ Writable
        /\ puzzle_attempts' = [puzzle_attempts EXCEPT ![box_id] = Append(@,
              [attempt_id |-> attempt_id, user_id |-> v.slot_user_id,
               g |-> <<norm_word(typed[1]), norm_word(typed[2]), norm_word(typed[3])>>,
               submitted_at_ms |-> at, checked |-> FALSE, score_positions |-> 0])]
        /\ views' = views \ {v}
        /\ UNCHANGED <<sessions, lobby, participants, prizes, box_ownership, box_secrets,
                       trivia_rounds, trivia_submissions, order_rounds, slot_state,
                       txs, opening>>

\* PuzzleModal.on_submit
PuzzleModal_on_submit(v, typed, at) ==
    LET box_id == v.box_id
        attempt_id == MaxOf(AttemptIds(box_id)) + 1
    IN  /\ v \in views
        /\ v.kind = "puzzle_modal"
        /\ Len(puzzle_attempts[box_id]) < MaxAttempts
        /\ Writable
        /\ puzzle_attempts' = [puzzle_attempts EXCEPT ![box_id] = Append(@,
              [attempt_id |-> attempt_id, user_id |-> v.slot_user_id,
               g |-> <<norm_word(typed[1]), norm_word(typed[2]), norm_word(typed[3])>>,
               submitted_at_ms |-> at, checked |-> FALSE, score_positions |-> 0])]
        /\ views' = views \ {v}
        /\ UNCHANGED <<sessions, lobby, participants, prizes, box_ownership, box_secrets,
                       trivia_rounds, trivia_submissions, order_rounds, slot_state,
                       txs, opening>>

compute_puzzle_position_score(correct_words, guess_words) ==
    Cardinality({i \in 1 .. 3 : correct_words[i] = guess_words[i]})

\* (variant: next_closest_puzzle_attempt with a sort by submitted_at_ms alone)
next_closest_puzzle_attempt_earliest(box_id, correct_words, exclude_attempt_id) ==
    LET attempts == {a \in AttemptRows(box_id) :
                        ~a.checked /\ a.attempt_id # exclude_attempt_id}
        scored(q) == SortByKey([i \in 1 .. Len(q) |->
                        [key |-> <<0, q[i].submitted_at_ms>>, r |-> q[i]]])
    IN  IF attempts = {} THEN {}
        ELSE {scored(q)[1].r : q \in Fetchall(attempts)}

\* next_closest_puzzle_attempt: the unchecked rows other than the excluded one
\* are fetched, sorted by (-score, submitted_at_ms), and the first one returned;
\* the rows the call can return, over the orders the SELECT can fetch them in
next_closest_puzzle_attempt(box_id, correct_words, exclude_attempt_id) ==
    LET attempts == {a \in AttemptRows(box_id) :
                        ~a.checked /\ a.attempt_id # exclude_attempt_id}
        scored(q) == SortByKey([i \in 1 .. Len(q) |->
                        [key |-> <<0 - compute_puzzle_position_score(correct_words, q[i].g),
                                   q[i].submitted_at_ms>>,
                         r |-> q[i]]])
    IN  IF attempts = {} THEN {}
        ELSE {scored(q)[1].r : q \in Fetchall(attempts)}

\* (variant: /wib check_puzzle with ORDER BY attempt_id ASC)
check_puzzle_oldest(nxt_user) ==
    LET box_id == sessions.current_box
        correct == box_secrets[box_id].phrase
        unchecked == {i \in 1 .. Len(puzzle_attempts[box_id]) :
                         ~puzzle_attempts[box_id][i].checked}
        k == CHOOSE i \in unchecked : \A j \in unchecked :
                 puzzle_attempts[box_id][j].attempt_id
                     >= puzzle_attempts[box_id][i].attempt_id
        attempt == puzzle_attempts[box_id][k]
        score == compute_puzzle_position_score(correct, attempt.g)
        nxt == next_closest_puzzle_attempt(box_id, correct, attempt.attempt_id)
    IN  /\ sessions.exists
        /\ box_secrets[box_id].exists
        /\ unchecked # {}
        /\ Writable
        /\ puzzle_attempts' = [puzzle_attempts EXCEPT
                                  ![box_id][k].checked = TRUE,
                                  ![box_id][k].score_positions = score]
        /\ IF score = 3
           THEN /\ nxt_user = NULL
                /\ slot_state' = IF slot_state[box_id].exists
                                 THEN [slot_state EXCEPT ![box_id].turns_left = 0,
                                                         ![box_id].pending_action = NoAction]
                                 ELSE slot_state
           ELSE IF nxt = {}
           THEN /\ nxt_user = NULL
                /\ slot_state' = slot_state
           ELSE /\ \E a \in nxt : nxt_user = a.user_id
                /\ slot_state' = IF slot_state[box_id].exists
                                 THEN [slot_state EXCEPT ![box_id].slot_user_id = nxt_user,
                                                         ![box_id].turns_left = 0,
                                                         ![box_id].pending_action = NoAction]
                                 ELSE slot_state
        /\ UNCHANGED <<sessions, lobby, participants, prizes, box_ownership, box_secrets,
                       trivia_rounds, trivia_submissions, order_rounds, txs, views, opening>>

\* (variant: /wib check_puzzle without the UPDATE of slot_state on a solved puzzle)
check_puzzle_no_reset(nxt_user) ==
    LET box_id == sessions.current_box
        correct == box_secrets[box_id].phrase
        unchecked == {i \in 1 .. Len(puzzle_attempts[box_id]) :
                         ~puzzle_attempts[box_id][i].checked}
        k == CHOOSE i \in unchecked : \A j \in unchecked :
                 puzzle_attempts[box_id][j].attempt_id
                     <= puzzle_attempts[box_id][i].attempt_id
        attempt == puzzle_attempts[box_id][k]
        score == compute_puzzle_position_score(correct, attempt.g)
        nxt == next_closest_puzzle_attempt(box_id, correct, attempt.attempt_id)
    IN  /\ sessions.exists
        /\ box_secrets[box_id].exists
        /\ unchecked # {}
        /\ Writable
        /\ puzzle_attempts' = [puzzle_attempts EXCEPT
                                  ![box_id][k].checked = TRUE,
                                  ![box_id][k].score_positions = score]
        /\ IF score = 3
           THEN /\ nxt_user = NULL
                /\ slot_state' = slot_state
           ELSE IF nxt = {}
           THEN /\ nxt_user = NULL
                /\ slot_state' = slot_state
           ELSE /\ \E a \in nxt : nxt_user = a.user_id
                /\ slot_state' = IF slot_state[box_id].exists
                                 THEN [slot_state EXCEPT ![box_id].slot_user_id = nxt_user,
                                                         ![box_id].turns_left = 0,
                                                         ![box_id].pending_action = NoAction]
                                 ELSE slot_state
        /\ UNCHANGED <<sessions, lobby, participants, prizes, box_ownership, box_secrets,
                       trivia_rounds, trivia_submissions, order_rounds, txs, views, opening>>

\* /wib check_puzzle
check_puzzle(nxt_user) ==
    LET box_id == sessions.current_box
        correct == box_secrets[box_id].phrase
        unchecked == {i \in 1 .. Len(puzzle_attempts[box_id]) :
                         ~puzzle_attempts[box_id][i].checked}
        k == CHOOSE i \in unchecked : \A j \in unchecked :
                 puzzle_attempts[box_id][j].attempt_id
                     <= puzzle_attempts[box_id][i].attempt_id
        attempt == puzzle_attempts[box_id][k]
        score == compute_puzzle_position_score(correct, attempt.g)
        nxt == next_closest_puzzle_attempt(box_id, correct, attempt.attempt_id)
    IN  /\ sessions.exists
        /\ box_secrets[box_id].exists
        /\ unchecked # {}
        /\ Writable
        /\ puzzle_attempts' = [puzzle_attempts EXCEPT
                                  ![box_id][k].checked = TRUE,
                                  ![box_id][k].score_positions = score]
        /\ IF score = 3
           THEN /\ nxt_user = NULL
                /\ slot_state' = IF slot_state[box_id].exists
                                 THEN [slot_state EXCEPT ![box_id].turns_left = 0,
                                                         ![box_id].pending_action = NoAction]
                                 ELSE slot_state
           ELSE IF nxt = {}
           THEN /\ nxt_user = NULL
                /\ slot_state' = slot_state
           ELSE /\ \E a \in nxt : nxt_user = a.user_id
                /\ slot_state' = IF slot_state[box_id].exists
                                 THEN [slot_state EXCEPT ![box_id].slot_user_id = nxt_user,
                                                         ![box_id].turns_left = 0,
                                                         ![box_id].pending_action = NoAction]
                                 ELSE slot_state
        /\ UNCHANGED <<sessions, lobby, participants, prizes, box_ownership, box_secrets,
                       trivia_rounds, trivia_submissions, order_rounds, txs, views, opening>>

\* ------------------------------------------------------------ opening a box
\* PrizeModal.on_submit with a title
PrizeModal_on_submit(v) ==
    /\ v \in views
    /\ v.kind = "prize_modal"
    /\ Writable
    /\ prizes' = prizes \cup {v.box_id}
    /\ views' = views \ {v}
    /\ UNCHANGED <<sessions, lobby, participants, box_ownership, box_secrets, trivia_rounds,
                   trivia_submissions, order_rounds, slot_state, puzzle_attempts,
                   txs, opening>>

\* /wib prize_set: the prize form of any box
prize_set(box_id) ==
    /\ box_id \in Boxes
    /\ views' \in Posted(View("prize_modal", box_id, NULL, 0, <<>>, NoOwners, {}))
    /\ UNCHANGED <<dbvars, lobby, txs, opening>>

Solved(box_id) == {a \in AttemptRows(box_id) : a.checked /\ a.score_positions = 3}

\* The host who runs /wib open_box (interaction.user.id)
HostId == NumUsers + 1

\* (variant: no row is asked for before the box is opened)
is_solved_any(box_id) == TRUE

\* solved = SELECT 1 ... checked=1 AND score_positions=3 LIMIT 1
is_solved(box_id) == Solved(box_id) # {}

\* (variant: the solver row with ORDER BY attempt_id ASC)
solver_id_first(box_id) ==
    IF Solved(box_id) = {} THEN HostId
    ELSE (CHOOSE a \in Solved(box_id) :
             \A o \in Solved(box_id) : o.attempt_id >= a.attempt_id).user_id

\* solver = SELECT user_id ... ORDER BY attempt_id DESC LIMIT 1, or the host
solver_id(box_id) ==
    IF Solved(box_id) = {} THEN HostId
    ELSE (CHOOSE a \in Solved(box_id) :
             \A o \in Solved(box_id) : o.attempt_id <= a.attempt_id).user_id

\* (variant: the box after the one opened is the same box)
next_box_same(box_id) == box_id

\* next_box = min(6, box_id + 1)
next_box(box_id) == Min(6, box_id + 1)

\* (variant: unlocked after more than three boxes)
eliminations_unlocked_late(opened_boxes_count, unlocked) ==
    IF opened_boxes_count > ElimThreshold THEN TRUE ELSE unlocked

\* eliminations_unlocked = 1 if opened_boxes_count >= 3 else sess["eliminations_unlocked"]
eliminations_unlocked(opened_boxes_count, unlocked) ==
    IF opened_boxes_count >= ElimThreshold THEN TRUE ELSE unlocked

\* /wib open_box up to its awaits
\* ... without the row of box_ownership
open_box_unowned ==
    LET box_id == sessions.current_box
        opened_boxes_count == sessions.opened_boxes_count + 1
    IN  /\ sessions.exists
        /\ is_solved(box_id)
        /\ IF box_id \notin prizes
           THEN /\ views' \in Posted(View("prize_modal", box_id, NULL, 0, <<>>,
                                          NoOwners, {}))
                /\ UNCHANGED <<dbvars, opening>>
           ELSE /\ Writable
                /\ sessions.opened_boxes_count < MaxOpened
                /\ box_ownership' = box_ownership
                /\ sessions' = [sessions EXCEPT
                                   !.opened_boxes_count = opened_boxes_count,
                                   !.eliminations_unlocked =
                                       eliminations_unlocked(opened_boxes_count,
                                                             sessions.eliminations_unlocked),
                                   !.current_box = next_box(box_id)]
                /\ opening' = IF box_id < 6 THEN opening \cup {box_id} ELSE opening
                /\ UNCHANGED <<participants, prizes, box_secrets, trivia_rounds,
                               trivia_submissions, order_rounds, slot_state,
                               puzzle_attempts, views>>
        /\ UNCHANGED <<lobby, txs>>

open_box ==
    LET box_id == sessions.current_box
        opened_boxes_count == sessions.opened_boxes_count + 1
    IN  /\ sessions.exists
        /\ is_solved(box_id)
        /\ IF box_id \notin prizes
           THEN /\ views' \in Posted(View("prize_modal", box_id, NULL, 0, <<>>,
                                          NoOwners, {}))
                /\ UNCHANGED <<dbvars, opening>>
           ELSE /\ Writable
                /\ sessions.opened_boxes_count < MaxOpened
                /\ box_ownership' = [box_ownership EXCEPT ![box_id] = solver_id(box_id)]
                /\ sessions' = [sessions EXCEPT
                                   !.opened_boxes_count = opened_boxes_count,
                                   !.eliminations_unlocked =
                                       eliminations_unlocked(opened_boxes_count,
                                                             sessions.eliminations_unlocked),
                                   !.current_box = next_box(box_id)]
                /\ opening' = IF box_id < 6 THEN opening \cup {box_id} ELSE opening
                /\ UNCHANGED <<participants, prizes, box_secrets, trivia_rounds,
                               trivia_submissions, order_rounds, slot_state,
                               puzzle_attempts, views>>
        /\ UNCHANGED <<lobby, txs>>

\* /wib open_box after its awaits: ensure_box_secret for the next box.  With the
\* write lock taken the INSERT raises and the handler ends.
open_box_ensure(box_id) ==
    /\ box_id \in opening
    /\ opening' = opening \ {box_id}
    /\ IF Writable
       THEN /\ box_secrets' = SecretsAfterEnsure(box_secrets, sessions.session_seed,
                                                 box_id + 1)
            /\ slot_state' = SlotsAfterEnsure(box_secrets, slot_state, box_id + 1)
       ELSE UNCHANGED <<box_secrets, slot_state>>
    /\ UNCHANGED <<sessions, lobby, participants, prizes, box_ownership, trivia_rounds,
                   trivia_submissions, order_rounds, puzzle_attempts, txs, views>>

\* ------------------------------------------------------------ elimination
\* The subsets of S with k elements
RECURSIVE KSubsets(_, _)
KSubsets(S, k) ==
    IF k = 0 THEN {{}}
    ELSE UNION {{T \cup {x} : T \in KSubsets({y \in S : y > x}, k - 1)} : x \in S}

\* owned_map.get(user_id, 0): the rows of box_ownership with that owner
owned_map(user_id) == Cardinality({b \in Boxes : box_ownership[b] = user_id})

\* (variant: every player is listed)
eligible_everyone == participants
\* The players (no participant is ever marked eliminated) owning no box
eligible == {p \in participants : owned_map(p) = 0}

\* eligible[:ElimShown]: the players are sorted by display name, which the
\* model does not keep, so any ElimShown of them may be the ones listed.
EligibleShown ==
    IF Cardinality(eligible) <= ElimShown THEN {eligible}
    ELSE {eligible \ D : D \in KSubsets(eligible, Cardinality(eligible) - ElimShown)}

\* /wib elim_eligible: the message listing the eligible players ('No eligible
\* players' for none); 'Eliminations are locked' without a session or with
\* eliminations_unlocked off.
elim_eligible ==
    /\ sessions.exists
    /\ sessions.eliminations_unlocked
    /\ \E shown \in EligibleShown :
          views' \in Posted(View("elim_eligible", 0, NULL, 0, <<>>, NoOwners, shown))
    /\ UNCHANGED <<dbvars, lobby, txs, opening>>

\* ------------------------------------------------------------ specification
Next ==
    \/ \E seed \in Seeds : lobby_cmd(seed)
    \/ \E u \in Users : join_button(u)
    \/ \E seed \in Seeds : lock(seed)
    \/ \E seed \in Seeds, salt \in Salts : wib_q(seed, salt)
    \/ \E v \in views, salt \in Salts : q_on_regen(v, salt)
    \/ \E v \in views : q_on_publish(v)
    \/ \E b \in Boxes, u \in Users : \E typed \in TypedNumbers(Guesses(b)) :
          \E at \in now_ms(Stamps(trivia_submissions[b])) :
             NumericAnswerModal_on_submit(b, u, typed, at)
    \/ \E u \in Users : \E val \in Guesses(sessions.current_box) :
          \E at \in now_ms(Stamps(trivia_submissions[sessions.current_box])) :
             num(u, val, at)
    \/ \E w \in Users \cup {NULL} : reveal(w)
    \/ \E salt \in Salts : q_order(salt)
    \/ \E v \in views : order_on_publish(v)
    \/ \E u \in Users :
          \E typed \in OrderInputs(order_rounds[sessions.current_box].correct_order) :
             order(u, typed)
    \/ \E u \in Users, idx \in 0 .. MaxIdx :
          \E chosen \in WildcardEffects(6) \cup {"-"} : CardButton_callback(u, idx, chosen)
    \/ \E t \in txs : CardButton_commit(t)
    \/ \E t \in txs : CardButton_rollback(t)
    \/ pass_show
    \/ \E v \in views, u \in Users : PassSelect_callback(v, u)
    \/ steal_show
    \/ \E v \in views, b \in Boxes : StealButton_callback(v, b)
    \/ donate_show
    \/ \E v \in views, b \in Boxes : BoxSelect_callback(v, b)
    \/ \E v \in views, u \in Users : RecipientSelect_callback(v, u)
    \/ \E v \in views, u \in Users : submit_puzzle(v, u)
    \/ \E v \in views : \E typed \in GuessInputs(v.box_id) :
          \E at \in now_ms(Stamps(AttemptRows(v.box_id))) :
             PuzzleModal_on_submit(v, typed, at)
    \/ \E w \in Users \cup {NULL} : check_puzzle(w)
    \/ \E v \in views : PrizeModal_on_submit(v)
    \/ open_box
    \/ \E b \in Boxes : open_box_ensure(b)
    \/ \E v \in views : view_timeout(v)
    \/ \E b \in Boxes : prize_set(b)
    \/ elim_eligible

Spec == Init /\ [][Next]_vars

\* ------------------------------------------------------------ later stages of a session
\* The rows of a box that was played the short way by `owner`: one exact answer,
\* the ordering key, the phrase guessed at once, the prize filled, the box opened.
PlayedTrivia(seed, players, b) ==
    [exists |-> TRUE, is_active |-> FALSE,
     answer_int |-> gen_numeric_question(seed, b, Cardinality(players)).ans]

PlayedAttempt(seed, owner, b) ==
    [attempt_id |-> 1, user_id |-> owner, g |-> gen_phrase_and_deck(seed, b).phrase,
     submitted_at_ms |-> 1, checked |-> TRUE, score_positions |-> 3]

\* The session at box_id with every earlier box b played by owners[b]; `round`
\* and `subs` are the trivia rows of box_id itself.
AtBoxOwned(seed, players, owners, box_id, round, subs) ==
    /\ sessions = [exists |-> TRUE, session_seed |-> seed, is_locked |-> TRUE,
                   current_box |-> box_id, opened_boxes_count |-> box_id - 1,
                   eliminations_unlocked |-> (box_id - 1 >= ElimThreshold)]
    /\ lobby = TRUE
    /\ participants = players
    /\ prizes = 1 .. (box_id - 1)
    /\ box_ownership = [b \in Boxes |-> IF b < box_id THEN owners[b] ELSE NULL]
    /\ box_secrets = [b \in Boxes |->
          IF b <= box_id
          THEN [exists |-> TRUE, phrase |-> gen_phrase_and_deck(seed, b).phrase,
                deck |-> gen_phrase_and_deck(seed, b).deck, revealed |-> {}]
          ELSE NoSecret]
    /\ trivia_rounds = [b \in Boxes |->
          IF b < box_id THEN PlayedTrivia(seed, players, b)
          ELSE IF b = box_id THEN round ELSE NoTrivia]
    /\ trivia_submissions = [b \in Boxes |->
          IF b < box_id
          THEN {[user_id |-> owners[b], value_int |-> PlayedTrivia(seed, players, b).answer_int,
                 submitted_at_ms |-> 1]}
          ELSE IF b = box_id THEN subs ELSE {}]
    /\ order_rounds = [b \in Boxes |->
          IF b < box_id
          THEN [exists |-> TRUE, slot_user_id |-> owners[b], is_active |-> FALSE,
                correct_order |-> gen_order_question(seed, b).correct_indices]
          ELSE NoOrder]
    /\ slot_state = [b \in Boxes |->
          IF b < box_id
          THEN [exists |-> TRUE, slot_user_id |-> owners[b], turns_left |-> 0,
                pending_action |-> NoAction]
          ELSE IF b = box_id
          THEN [exists |-> TRUE, slot_user_id |-> NULL, turns_left |-> 0,
                pending_action |-> NoAction]
          ELSE NoSlot]
    /\ puzzle_attempts = [b \in Boxes |->
          IF b < box_id THEN <<PlayedAttempt(seed, owners[b], b)>> ELSE <<>>]
    /\ txs = {}
    /\ views = {}
    /\ opening = {}

\* ... every earlier box played by the one `owner`
AtBoxWith(seed, players, owner, box_id, round, subs) ==
    AtBoxOwned(seed, players, [b \in Boxes |-> owner], box_id, round, subs)

\* The session right after /wib lock (box_id = 1) or right after box_id - 1 was
\* opened and the next box's secret ensured.
AtBox(seed, players, owner, box_id) ==
    AtBoxWith(seed, players, owner, box_id, NoTrivia, {})

\* The session when the host is about to run /wib reveal at box_id: the question
\* is published and every player has sent the exact answer, `first` not after the
\* others and the others `gap` ms later.
AtReveal(seed, players, owner, box_id, first, gap) ==
    LET ans == gen_numeric_question(seed, box_id, Cardinality(players)).ans
    IN  AtBoxWith(seed, players, owner, box_id,
                  [exists |-> TRUE, answer_int |-> ans, is_active |-> TRUE],
                  {[user_id |-> u, value_int |-> ans,
                    submitted_at_ms |-> IF u = first THEN 1 ELSE 1 + gap] : u \in players})

\* ------------------------------------------------------------ the card loop
\* Box 2 carries the middle deck tier, box 6 every card type.
CardBoxes == {2, 6}

InitCards ==
    \E seed \in Seeds, b \in CardBoxes, first \in Users, gap \in {0, 1} :
        AtReveal(seed, Users, 1, b, first, gap)

\* The answers typed in the card loop: the key, the key with its first two places
\* swapped, the key rotated by one
CardOrderInputs(correct) ==
    LET c == IF Len(correct) = OrderItems THEN correct ELSE <<0, 1, 2, 3, 4>>
        key == [i \in 1 .. OrderItems |-> Labels[c[i] + 1]]
    IN  { key, [key EXCEPT ![1] = key[2], ![2] = key[1]],
          [i \in 1 .. OrderItems |-> key[(i % OrderItems) + 1]] }

\* The handlers of the card loop of a box, from the trivia resolution on.  The
\* box stolen or donated is box 1.
NextCards ==
    \/ \E w \in Users \cup {NULL} : reveal(w)
    \/ q_order(0)
    \/ \E v \in views : order_on_publish(v)
    \/ \E u \in Users :
          \E typed \in CardOrderInputs(order_rounds[sessions.current_box].correct_order) :
             order(u, typed)
    \/ \E u \in Users, idx \in 0 .. MaxIdx :
          \E chosen \in WildcardEffects(6) \cup {"-"} : CardButton_callback(u, idx, chosen)
    \/ \E t \in txs : CardButton_commit(t)
    \/ \E t \in txs : CardButton_rollback(t)
    \/ pass_show
    \/ \E v \in views, u \in Users : PassSelect_callback(v, u)
    \/ steal_show
    \/ \E v \in views : StealButton_callback(v, 1)
    \/ donate_show
    \/ \E v \in views : BoxSelect_callback(v, 1)
    \/ \E v \in views, u \in Users : RecipientSelect_callback(v, u)

SpecCards == InitCards /\ [][NextCards]_vars

\* ------------------------------------------------------------ turns of a box
\* Box 6 from the trivia resolution on, with the puzzle handlers; the pending
\* action resolved is PASS, the one resolution that writes turns_left.
InitTurns == \E seed \in Seeds : AtReveal(seed, Users, 1, 6, 1, 0)

TurnsAttempts == 2      \* puzzle attempts of the box in these runs

\* What players type for a box in these runs: its phrase, and the phrase with a
\* wrong last word
TurnsGuesses(box_id) ==
    LET p == gen_phrase_and_deck(sessions.session_seed, box_id).phrase
    IN  { p, <<p[1], p[2], "nope!">> }

NextTurns ==
    \/ \E w \in Users \cup {NULL} : reveal(w)
    \/ q_order(0)
    \/ \E v \in views : order_on_publish(v)
    \/ \E u \in Users :
          \E typed \in CardOrderInputs(order_rounds[sessions.current_box].correct_order) :
             order(u, typed)
    \/ \E u \in Users, idx \in 0 .. MaxIdx :
          \E chosen \in WildcardEffects(6) \cup {"-"} : CardButton_callback(u, idx, chosen)
    \/ \E t \in txs : CardButton_commit(t)
    \/ \E t \in txs : CardButton_rollback(t)
    \/ pass_show
    \/ \E v \in views, u \in Users : PassSelect_callback(v, u)
    \/ \E v \in views, u \in Users : submit_puzzle(v, u)
    \/ \E v \in views : \E typed \in TurnsGuesses(v.box_id) :
          /\ Len(puzzle_attempts[v.box_id]) < TurnsAttempts
          /\ PuzzleModal_on_submit(v, typed, MaxOf(Stamps(AttemptRows(v.box_id))) + 1)
    \/ \E w \in Users \cup {NULL} : check_puzzle(w)

SpecTurns == InitTurns /\ [][NextTurns]_vars

\* ------------------------------------------------------------ the trivia round
\* A session from its start up to the trivia resolutions of box 1.
NextTrivia ==
    \/ \E seed \in Seeds : lobby_cmd(seed)
    \/ \E u \in Users : join_button(u)
    \/ \E seed \in Seeds : lock(seed)
    \/ \E seed \in Seeds, salt \in Salts : wib_q(seed, salt)
    \/ \E v \in views, salt \in Salts : q_on_regen(v, salt)
    \/ \E v \in views : q_on_publish(v)
    \/ \E b \in Boxes, u \in Users : \E typed \in TypedNumbers(Guesses(b)) :
          \E at \in now_ms(Stamps(trivia_submissions[b])) :
             NumericAnswerModal_on_submit(b, u, typed, at)
    \/ \E u \in Users : \E val \in Guesses(sessions.current_box) :
          \E at \in now_ms(Stamps(trivia_submissions[sessions.current_box])) :
             num(u, val, at)
    \/ \E w \in Users \cup {NULL} : reveal(w)
    \/ \E v \in views : view_timeout(v)

SpecTrivia == Init /\ [][NextTrivia]_vars

\* ------------------------------------------------------------ resolutions in mid-game
\* Box 6 from its start: questions are published again while the slot holder
\* plays cards, and resolved again.
InitResolve == \E seed \in Seeds : AtBox(seed, Users, 1, 6)

NextResolve ==
    \/ wib_q(sessions.session_seed, 0)
    \/ \E v \in views : q_on_publish(v)
    \/ \E u \in Users :
          num(u, trivia_rounds[sessions.current_box].answer_int,
              MaxOf(Stamps(trivia_submissions[sessions.current_box])) + 1)
    \/ \E w \in Users \cup {NULL} : reveal(w)
    \/ q_order(0)
    \/ \E v \in views : order_on_publish(v)
    \/ \E u \in Users :
          \E typed \in CardOrderInputs(order_rounds[sessions.current_box].correct_order) :
             order(u, typed)
    \/ \E u \in Users, idx \in 0 .. MaxIdx :
          \E chosen \in WildcardEffects(6) \cup {"-"} : CardButton_callback(u, idx, chosen)
    \/ \E t \in txs : CardButton_commit(t)
    \/ \E t \in txs : CardButton_rollback(t)

SpecResolve == InitResolve /\ [][NextResolve]_vars

\* ------------------------------------------------------------ ordering rounds
\* Box 2 from the trivia resolution on: ordering questions are previewed with
\* either salt, published and answered in every typed form while the holder
\* plays cards.
InitOrder == \E seed \in Seeds, first \in Users : AtReveal(seed, Users, 1, 2, first, 1)

NextOrder ==
    \/ \E w \in Users \cup {NULL} : reveal(w)
    \/ \E salt \in Salts : q_order(salt)
    \/ \E v \in views : order_on_publish(v)
    \/ \E u \in Users :
          \E typed \in OrderInputs(order_rounds[sessions.current_box].correct_order) :
             order(u, typed)
    \/ \E u \in Users, idx \in 0 .. MaxIdx :
          \E chosen \in WildcardEffects(2) \cup {"-"} : CardButton_callback(u, idx, chosen)
    \/ \E t \in txs : CardButton_commit(t)
    \/ \E t \in txs : CardButton_rollback(t)

SpecOrder == InitOrder /\ [][NextOrder]_vars

\* ------------------------------------------------------------ the puzzle of a box
\* Box 2 from the trivia resolution on: the holder earns turns, submits guesses,
\* passes the slot with the PASS card (index 0 of the deck) to another user who
\* submits in turn, and the host checks the attempts.
InitPuzzle == \E seed \in Seeds : AtReveal(seed, Users, 1, 2, 1, 0)

NextPuzzle ==
    \/ \E w \in Users \cup {NULL} : reveal(w)
    \/ q_order(0)
    \/ \E v \in views : order_on_publish(v)
    \/ \E u \in Users :
          \E typed \in CardOrderInputs(order_rounds[sessions.current_box].correct_order) :
             order(u, typed)
    \/ \E u \in Users : CardButton_callback(u, 0, "-")
    \/ \E t \in txs : CardButton_commit(t)
    \/ \E t \in txs : CardButton_rollback(t)
    \/ pass_show
    \/ \E v \in views, u \in Users : PassSelect_callback(v, u)
    \/ \E v \in views, u \in Users : submit_puzzle(v, u)
    \/ \E v \in views : \E typed \in GuessInputs(v.box_id) :
          PuzzleModal_on_submit(v, typed, MaxOf(Stamps(AttemptRows(v.box_id))) + 1)
    \/ \E w \in Users \cup {NULL} : check_puzzle(w)

SpecPuzzle == InitPuzzle /\ [][NextPuzzle]_vars

\* ------------------------------------------------------------ solving and opening
\* Boxes 2 and 6 from the trivia resolution on: the holder earns turns, plays
\* the first card, submits guesses; the host checks them, enters the prize and
\* opens the box.
InitSolve == \E seed \in Seeds, b \in CardBoxes : AtReveal(seed, Users, 1, b, 1, 0)

NextSolve ==
    \/ \E w \in Users \cup {NULL} : reveal(w)
    \/ q_order(0)
    \/ \E v \in views : order_on_publish(v)
    \/ \E u \in Users :
          \E typed \in CardOrderInputs(order_rounds[sessions.current_box].correct_order) :
             order(u, typed)
    \/ \E u \in Users : \E chosen \in WildcardEffects(6) \cup {"-"} :
          CardButton_callback(u, 0, chosen)
    \/ \E t \in txs : CardButton_commit(t)
    \/ \E t \in txs : CardButton_rollback(t)
    \/ \E v \in views, u \in Users : submit_puzzle(v, u)
    \/ \E v \in views : \E typed \in TurnsGuesses(v.box_id) :
          /\ Len(puzzle_attempts[v.box_id]) < TurnsAttempts
          /\ PuzzleModal_on_submit(v, typed, MaxOf(Stamps(AttemptRows(v.box_id))) + 1)
    \/ \E w \in Users \cup {NULL} : check_puzzle(w)
    \/ open_box
    \/ \E v \in views : PrizeModal_on_submit(v)
    \/ \E b \in Boxes : open_box_ensure(b)

SpecSolve == InitSolve /\ [][NextSolve]_vars

\* ------------------------------------------------------------ the rotation of the slot
\* The attempts of a box, none checked yet: each by any user with any of the
\* guesses, attempt_id in the order of submission, and every attempt submitted
\* in the same millisecond as the one before it or later.
AttemptTables(seed, box_id) ==
    LET p == gen_phrase_and_deck(seed, box_id).phrase
        guesses == {p, <<p[1], p[2], "NOPE">>, <<"NOPE", "NOPE", "NOPE">>}
        rows == [user_id : Users, g : guesses, gap : {0, 1}]
        RECURSIVE at(_, _)
        at(q, i) == IF i = 1 THEN 1 ELSE at(q, i - 1) + q[i].gap
    IN  {[i \in 1 .. MaxAttempts |->
             [attempt_id |-> i, user_id |-> q[i].user_id, g |-> q[i].g,
              submitted_at_ms |-> at(q, i), checked |-> FALSE, score_positions |-> 0]] :
            q \in {t \in [1 .. MaxAttempts -> rows] : t[1].gap = 0}}

\* Box 2 after its holders, the slot changing hands by trivia resolutions, have
\* submitted MaxAttempts guesses through the SubmitPuzzleView of the first
\* ordering round: the session of AtBox with the rows of those rounds.
AtRotation(seed, box_id, holder, attempts) ==
    /\ sessions = [exists |-> TRUE, session_seed |-> seed, is_locked |-> TRUE,
                   current_box |-> box_id, opened_boxes_count |-> box_id - 1,
                   eliminations_unlocked |-> (box_id - 1 >= ElimThreshold)]
    /\ lobby = TRUE
    /\ participants = Users
    /\ prizes = 1 .. (box_id - 1)
    /\ box_ownership = [b \in Boxes |-> IF b < box_id THEN 1 ELSE NULL]
    /\ box_secrets = [b \in Boxes |->
          IF b <= box_id
          THEN [exists |-> TRUE, phrase |-> gen_phrase_and_deck(seed, b).phrase,
                deck |-> gen_phrase_and_deck(seed, b).deck, revealed |-> {}]
          ELSE NoSecret]
    /\ trivia_rounds = [b \in Boxes |->
          IF b <= box_id THEN PlayedTrivia(seed, Users, b) ELSE NoTrivia]
    /\ trivia_submissions = [b \in Boxes |->
          IF b <= box_id
          THEN {[user_id |-> IF b < box_id THEN 1 ELSE holder,
                 value_int |-> PlayedTrivia(seed, Users, b).answer_int,
                 submitted_at_ms |-> 1]}
          ELSE {}]
    /\ order_rounds = [b \in Boxes |->
          IF b <= box_id
          THEN [exists |-> TRUE, slot_user_id |-> IF b < box_id THEN 1
                                                  ELSE attempts[1].user_id,
                is_active |-> FALSE,
                correct_order |-> gen_order_question(seed, b).correct_indices]
          ELSE NoOrder]
    /\ slot_state = [b \in Boxes |->
          IF b <= box_id
          THEN [exists |-> TRUE, slot_user_id |-> IF b < box_id THEN 1 ELSE holder,
                turns_left |-> 0, pending_action |-> NoAction]
          ELSE NoSlot]
    /\ puzzle_attempts = [b \in Boxes |->
          IF b < box_id THEN <<PlayedAttempt(seed, 1, b)>>
          ELSE IF b = box_id THEN attempts ELSE <<>>]
    /\ txs = {}
    /\ views = {}
    /\ opening = {}

InitRotation ==
    \E seed \in Seeds, holder \in Users : \E attempts \in AttemptTables(seed, 2) :
        AtRotation(seed, 2, holder, attempts)

NextRotation == \E w \in Users \cup {NULL} : check_puzzle(w)

SpecRotation == InitRotation /\ [][NextRotation]_vars

\* ------------------------------------------------------------ the opening of boxes
\* Every box with its attempts submitted, a millisecond apart: the host checks
\* them, enters the prize and opens the box, before, between or after the
\* checks; box 6 stays the current box once opened.
InitOpen ==
    \E seed \in Seeds, b \in Boxes : \E attempts \in AttemptTables(seed, b) :
        /\ \A i \in 1 .. MaxAttempts : attempts[i].submitted_at_ms = i
        /\ AtRotation(seed, b, attempts[1].user_id, attempts)

NextOpen ==
    \/ \E w \in Users \cup {NULL} : check_puzzle(w)
    \/ open_box
    \/ prize_set(sessions.current_box)
    \/ \E v \in views : PrizeModal_on_submit(v)
    \/ \E b \in Boxes : open_box_ensure(b)

SpecOpen == InitOpen /\ [][NextOpen]_vars

\* ------------------------------------------------------------ the eligibility list
ElimPlayers == 32    \* most registered players in the runs of the eligibility list

\* A session at any box, its earlier boxes opened by players 1 and 2, with up to
\* ElimPlayers registered players, when the host asks for the eligible players.
InitElim ==
    \E seed \in Seeds, n \in 1 .. ElimPlayers, b \in Boxes :
        \E owners \in [Boxes -> {u \in Users : u <= n}] :
            /\ \A x \in Boxes : x >= b => owners[x] = 1
            /\ AtBoxOwned(seed, 1 .. n, owners, b, NoTrivia, {})

NextElim == elim_eligible

SpecElim == InitElim /\ [][NextElim]_vars

\* ------------------------------------------------------------ the decks
MaxSeeds == 20       \* session seeds drawn in the runs of the generators
GenSeeds == {100000 + 40000 * i : i \in 0 .. (MaxSeeds - 1)}

\* A fresh channel locked under any of the seeds, or a session of any of the
\* seeds at any box with user 1's guesses waiting to be checked: the secrets are
\* written by /wib lock and by /wib open_box for the box after the opened one.
InitDeck ==
    \/ Init
    \/ \E seed \in GenSeeds, b \in Boxes : \E attempts \in AttemptTables(seed, b) :
          /\ \A i \in 1 .. MaxAttempts :
                 /\ attempts[i].submitted_at_ms = i
                 /\ attempts[i].user_id = 1
                 /\ attempts[i].g = attempts[1].g
          /\ AtRotation(seed, b, 1, attempts)

NextDeck ==
    \/ \E seed \in GenSeeds : lock(seed)
    \/ \E w \in Users \cup {NULL} : check_puzzle(w)
    \/ open_box
    \/ \E v \in views : PrizeModal_on_submit(v)
    \/ \E b \in Boxes : open_box_ensure(b)

SpecDeck == InitDeck /\ [][NextDeck]_vars

\* ------------------------------------------------------------ the generators
\* A session of any of the seeds at any box, with one or two players: the host
\* previews, regenerates and publishes questions while answers come in and
\* rounds are resolved.
InitGen ==
    \E seed \in GenSeeds, b \in Boxes, n \in 1 .. NumUsers :
        AtBox(seed, 1 .. n, 1, b)

NextGen ==
    \/ \E seed \in Seeds, salt \in Salts : wib_q(seed, salt)
    \/ \E v \in views, salt \in Salts : q_on_regen(v, salt)
    \/ \E v \in views : q_on_publish(v)
    \/ \E u \in Users : num(u, trivia_rounds[sessions.current_box].answer_int, 1)
    \/ \E w \in Users \cup {NULL} : reveal(w)
    \/ \E salt \in Salts : q_order(salt)
    \/ \E v \in views : order_on_publish(v)

SpecGen == InitGen /\ [][NextGen]_vars

\* ------------------------------------------------------------ passing and opening
\* Box 2 from the trivia resolution on: the holder earns turns, reveals cards,
\* passes the slot and submits guesses while the host checks them, enters the
\* prize and opens the box.
InitPassOpen == \E seed \in Seeds : AtReveal(seed, Users, 1, 2, 1, 0)

NextPassOpen ==
    \/ \E w \in Users \cup {NULL} : reveal(w)
    \/ q_order(0)
    \/ \E v \in views : order_on_publish(v)
    \/ \E u \in Users :
          \E typed \in CardOrderInputs(order_rounds[sessions.current_box].correct_order) :
             order(u, typed)
    \/ \E u \in Users, idx \in 0 .. MaxIdx : CardButton_callback(u, idx, "-")
    \/ \E t \in txs : CardButton_commit(t)
    \/ \E t \in txs : CardButton_rollback(t)
    \/ pass_show
    \/ \E v \in views, u \in Users : PassSelect_callback(v, u)
    \/ \E v \in views, u \in Users : submit_puzzle(v, u)
    \/ \E v \in views : \E typed \in TurnsGuesses(v.box_id) :
          /\ Len(puzzle_attempts[v.box_id]) < TurnsAttempts
          /\ PuzzleModal_on_submit(v, typed, MaxOf(Stamps(AttemptRows(v.box_id))) + 1)
    \/ \E w \in Users \cup {NULL} : check_puzzle(w)
    \/ prize_set(sessions.current_box)
    \/ \E v \in views : PrizeModal_on_submit(v)
    \/ open_box
    \/ \E b \in Boxes : open_box_ensure(b)

SpecPassOpen == InitPassOpen /\ [][NextPassOpen]_vars

\* ------------------------------------------------------------ publishing late
\* Boxes 1 and 2 with user 1's guesses waiting for the check: the host draws
\* the previews of the questions, publishes them, enters the prize, checks the
\* guesses and opens the box, while players send numbers from the answer form.
InitLate ==
    \E seed \in Seeds, b \in {1, 2} : \E attempts \in AttemptTables(seed, b) :
        /\ \A i \in 1 .. MaxAttempts :
               /\ attempts[i].submitted_at_ms = i
               /\ attempts[i].user_id = 1
               /\ attempts[i].g = attempts[1].g
        /\ AtRotation(seed, b, 1, attempts)

NextLate ==
    \/ \E seed \in Seeds : wib_q(seed, 0)
    \/ \E v \in views : q_on_publish(v)
    \/ \E b \in Boxes, u \in Users : \E typed \in TypedNumbers({trivia_rounds[b].answer_int}) :
          NumericAnswerModal_on_submit(b, u, typed, 1)
    \/ q_order(0)
    \/ \E v \in views : order_on_publish(v)
    \/ \E w \in Users \cup {NULL} : check_puzzle(w)
    \/ prize_set(sessions.current_box)
    \/ \E v \in views : PrizeModal_on_submit(v)
    \/ open_box
    \/ \E b \in Boxes : open_box_ensure(b)

SpecLate == InitLate /\ [][NextLate]_vars

\* ------------------------------------------------------------ owners of the boxes
\* Boxes 2 and 6 from the trivia resolution on: the holder earns turns, reveals
\* cards, steals or donates box 1 and sends the phrase; the host checks it,
\* enters the prize and opens the box.
InitOwn ==
    \E seed \in Seeds, b \in CardBoxes, first \in Users : AtReveal(seed, Users, 1, b, first, 1)

NextOwn ==
    \/ \E w \in Users \cup {NULL} : reveal(w)
    \/ q_order(0)
    \/ \E v \in views : order_on_publish(v)
    \/ \E u \in Users :
          \E typed \in CardOrderInputs(order_rounds[sessions.current_box].correct_order) :
             order(u, typed)
    \/ \E u \in Users, idx \in 0 .. MaxIdx :
          \E chosen \in WildcardEffects(6) \cup {"-"} : CardButton_callback(u, idx, chosen)
    \/ \E t \in txs : CardButton_commit(t)
    \/ steal_show
    \/ \E v \in views : StealButton_callback(v, 1)
    \/ donate_show
    \/ \E v \in views : BoxSelect_callback(v, 1)
    \/ \E v \in views, u \in Users : RecipientSelect_callback(v, u)
    \/ \E v \in views, u \in Users : submit_puzzle(v, u)
    \/ \E v \in views :
          /\ puzzle_attempts[v.box_id] = <<>>
          /\ PuzzleModal_on_submit(v, gen_phrase_and_deck(sessions.session_seed, v.box_id).phrase, 1)
    \/ \E w \in Users \cup {NULL} : check_puzzle(w)
    \/ prize_set(sessions.current_box)
    \/ \E v \in views : PrizeModal_on_submit(v)
    \/ open_box
    \/ \E b \in Boxes : open_box_ensure(b)

SpecOwn == InitOwn /\ [][NextOwn]_vars

\* ------------------------------------------------------------ the trivia outcome
\* compute_trivia_outcome on every small table of submissions: each player has
\* sent nothing, or one of the values around the answer at one of two instants.
OutcomeTables(correct) ==
    LET cells == {<<0, 0>>} \cup (((0 - MaxDelta) .. MaxDelta) \X {1, 2})
    IN  { {[user_id |-> u, value_int |-> correct + f[u][1], submitted_at_ms |-> f[u][2]] :
              u \in {w \in Users : f[w][2] # 0}} : f \in [Users -> cells] }

InitOutcome ==
    \E seed \in Seeds :
        LET ans == gen_numeric_question(seed, 1, NumUsers).ans
        IN  \E subs \in OutcomeTables(ans) :
                AtBoxWith(seed, Users, 1, 1,
                          [exists |-> TRUE, answer_int |-> ans, is_active |-> TRUE], subs)

NextOutcome == \E w \in Users \cup {NULL} : reveal(w)

SpecOutcome == InitOutcome /\ [][NextOutcome]_vars

\* ------------------------------------------------------------ properties
Revealed(b) == box_secrets[b].revealed
CardType(b, i) == box_secrets[b].deck[i + 1].type

\* C1: every accepted reveal adds one index to the revealed set and spends one
\* committed turn of the box (a wildcard's bonus turn gives that one back), and it
\* is accepted only while a committed turn is left; so reveals never outnumber the
\* turns awarded plus the bonus turns, and of two reveals started on the same
\* turns_left = 1 at most one is accepted.
C1_RevealsWithinTurns ==
    [][\A b \in Boxes :
          box_secrets'[b].revealed # Revealed(b) =>
             \E i \in 0 .. (DeckSize - 1) :
                /\ i \notin Revealed(b)
                /\ box_secrets'[b].revealed = Revealed(b) \cup {i}
                /\ slot_state[b].turns_left >= 1
                /\ \/ slot_state'[b].turns_left = slot_state[b].turns_left - 1
                   \/ /\ CardType(b, i) = "WILDCARD"
                      /\ slot_state'[b].turns_left = slot_state[b].turns_left]_vars

\* A reveal handler is suspended at its await on the holder's last turn while
\* other cards are still face down
C1_Witness ==
    \E t \in txs :
        /\ slot_state[t.box_id].turns_left = 1
        /\ t.turns_left = 0
        /\ (0 .. MaxIdx) \ t.revealed # {}

\* C2: a reveal of index i by user u passes the checks, and later turns the card,
\* only on the current box and only if u is its slot holder, turns_left > 0,
\* pending_action is unset and i is not revealed; otherwise the revealed set is
\* left as it is.
C2_RevealOnlyIfEligible ==
    [][/\ \A t \in txs' \ txs :
             /\ t.box_id = sessions.current_box
             /\ slot_state[t.box_id].slot_user_id = t.user_id
             /\ slot_state[t.box_id].turns_left > 0
             /\ slot_state[t.box_id].pending_action = NoAction
             /\ t.idx \notin Revealed(t.box_id)
       /\ \A b \in Boxes :
             box_secrets'[b].revealed # Revealed(b) =>
                \E t \in txs :
                   /\ t.box_id = b
                   /\ b = sessions.current_box
                   /\ box_secrets'[b].revealed = Revealed(b) \cup {t.idx}
                   /\ slot_state[b].slot_user_id = t.user_id
                   /\ slot_state[b].turns_left > 0
                   /\ slot_state[b].pending_action = NoAction
                   /\ t.idx \notin Revealed(b)]_vars

\* A card has been turned, and the holder could turn another one while the other
\* player could not
C2_Witness ==
    \E b \in Boxes :
        /\ Revealed(b) # {}
        /\ slot_state[b].slot_user_id # NULL
        /\ slot_state[b].turns_left > 0
        /\ slot_state[b].pending_action = NoAction
        /\ Users \ {slot_state[b].slot_user_id} # {}

\* C3: turns_left of every box is between 0 and 5 in every reachable state, in
\* the committed rows and in the UPDATEs of suspended reveal handlers.
C3_TurnsInRange ==
    /\ \A b \in Boxes : slot_state[b].turns_left \in 0 .. 5
    /\ \A t \in txs : t.turns_left \in 0 .. 5

\* A wildcard resolved to a bonus turn for a holder with all five turns
C3_Witness ==
    \E t \in txs :
        /\ CardType(t.box_id, t.idx) = "WILDCARD"
        /\ slot_state[t.box_id].turns_left = 5
        /\ t.turns_left = 5

\* C4: the revealed set of every box only grows, by at most one index per step,
\* within 0..9, and no reveal passes the checks for an index that is in it.
C4_RevealedGrows ==
    [][/\ \A b \in Boxes :
             /\ Revealed(b) \subseteq box_secrets'[b].revealed
             /\ box_secrets'[b].revealed \subseteq 0 .. 9
             /\ Cardinality(box_secrets'[b].revealed \ Revealed(b)) <= 1
       /\ \A t \in txs' \ txs : t.idx \notin Revealed(t.box_id)]_vars

\* Two cards are turned and the holder may go on
C4_Witness ==
    \E b \in Boxes :
        /\ Cardinality(Revealed(b)) >= 2
        /\ slot_state[b].turns_left > 0
        /\ slot_state[b].pending_action = NoAction

\* C5: the reveal of a PASS, STEAL or DONATE card leaves pending_action at the
\* card's type, and while pending_action is set no reveal on the box passes the
\* checks and its revealed set stays as it is.
C5_PendingBlocksReveals ==
    [][\A b \in Boxes :
          /\ \A i \in box_secrets'[b].revealed \ Revealed(b) :
                CardType(b, i) \in {"PASS", "STEAL", "DONATE"} =>
                   slot_state'[b].pending_action = CardType(b, i)
          /\ slot_state[b].pending_action # NoAction =>
                /\ box_secrets'[b].revealed = Revealed(b)
                /\ \A t \in txs' \ txs : t.box_id # b]_vars

\* A special card is turned and its action pending, with turns and face-down
\* cards left
C5_Witness ==
    \E b \in Boxes : \E i \in Revealed(b) :
        /\ CardType(b, i) \in {"PASS", "STEAL", "DONATE"}
        /\ slot_state[b].pending_action = CardType(b, i)
        /\ slot_state[b].turns_left > 0
        /\ (0 .. MaxIdx) \ Revealed(b) # {}

\* C6: the reveal of a WILDCARD card either leaves pending_action unset and
\* turns_left at min(5, decremented + 1), or sets pending_action to PASS or STEAL
\* (or DONATE on box 6) and turns_left to the decremented value; pending_action
\* is never BONUS_TURN.
C6_WildcardResolution ==
    [][\A b \in Boxes :
          /\ \A i \in box_secrets'[b].revealed \ Revealed(b) :
                CardType(b, i) = "WILDCARD" =>
                   \/ /\ slot_state'[b].pending_action = NoAction
                      /\ slot_state'[b].turns_left =
                            Min(5, (slot_state[b].turns_left - 1) + 1)
                   \/ /\ slot_state'[b].pending_action \in
                            {"PASS", "STEAL"} \cup (IF b = 6 THEN {"DONATE"} ELSE {})
                      /\ slot_state'[b].turns_left = slot_state[b].turns_left - 1
          /\ slot_state'[b].pending_action # "BONUS_TURN"]_vars

\* Only the wildcard of box 6 is turned and it resolved to DONATE
C6_Witness ==
    \E i \in Revealed(6) :
        /\ Revealed(6) = {i}
        /\ CardType(6, i) = "WILDCARD"
        /\ slot_state[6].pending_action = "DONATE"

\* C7: every box holds at most one trivia submission per user, and a row stays
\* as it was recorded until the next question is published for the box.
C7_OneSubmissionPerUser ==
    [][\A b \in Boxes :
          /\ \A u \in Users :
                Cardinality({r \in trivia_submissions'[b] : r.user_id = u}) <= 1
          /\ \/ trivia_submissions[b] \subseteq trivia_submissions'[b]
             \/ trivia_submissions'[b] = {}]_vars

\* Every player has a row in an active round: whatever is sent now comes second
C7_Witness ==
    \E b \in Boxes :
        /\ trivia_rounds[b].is_active
        /\ \A u \in Users : \E r \in trivia_submissions[b] : r.user_id = u

\* C8: a trivia submission is recorded only in a locked session, for an active
\* round, from a registered participant without a row for the round.
C8_SubmissionGuards ==
    [][\A b \in Boxes :
          \A r \in trivia_submissions'[b] \ trivia_submissions[b] :
             /\ sessions.exists
             /\ sessions.is_locked
             /\ trivia_rounds[b].exists
             /\ trivia_rounds[b].is_active
             /\ r.user_id \in participants
             /\ \A o \in trivia_submissions[b] : o.user_id # r.user_id]_vars

\* A round with a recorded submission is resolved, and one user never joined
C8_Witness ==
    \E b \in Boxes :
        /\ trivia_rounds[b].exists
        /\ ~trivia_rounds[b].is_active
        /\ trivia_submissions[b] # {}
        /\ Users \ participants # {}

\* C9: the resolution of a round with submissions makes slot holder the author
\* of the earliest submission equal to the answer, or without one the author of a
\* submission of smallest absolute difference and, among those, earliest
\* timestamp; that user is one of the submitters.
C9_TriviaWinner ==
    [][\A b \in Boxes :
          (trivia_rounds[b].is_active /\ ~trivia_rounds'[b].is_active
              /\ trivia_submissions[b] # {}) =>
             LET rows == trivia_submissions[b]
                 correct == trivia_rounds[b].answer_int
                 exacts == {r \in rows : r.value_int = correct}
                 diff(r) == Abs(r.value_int - correct)
                 best == IF exacts # {}
                         THEN {r \in exacts : \A o \in exacts :
                                  r.submitted_at_ms <= o.submitted_at_ms}
                         ELSE {r \in rows : \A o \in rows :
                                  \/ diff(r) < diff(o)
                                  \/ /\ diff(r) = diff(o)
                                     /\ r.submitted_at_ms <= o.submitted_at_ms}
             IN  /\ slot_state'[b].slot_user_id \in {r.user_id : r \in best}
                 /\ slot_state'[b].slot_user_id \in {r.user_id : r \in rows}]_vars

\* A resolved round without an exact answer, won by the closer submission
\* although it came later
C9_Witness ==
    \E b \in Boxes : \E r, o \in trivia_submissions[b] :
        /\ trivia_rounds[b].exists
        /\ ~trivia_rounds[b].is_active
        /\ \A x \in trivia_submissions[b] : x.value_int # trivia_rounds[b].answer_int
        /\ Abs(r.value_int - trivia_rounds[b].answer_int)
              < Abs(o.value_int - trivia_rounds[b].answer_int)
        /\ r.submitted_at_ms > o.submitted_at_ms
        /\ slot_state[b].slot_user_id = r.user_id

\* C10: the resolution of an active round with submissions deactivates it and
\* leaves the current box's slot_state at a submitter, turns_left 0 and no
\* pending_action; the slot holder changes by nothing but the resolution of an
\* active round, and a round becomes active again only by a publish, which
\* starts it without submissions.
C10_Resolve ==
    [][\A b \in Boxes :
          /\ (trivia_rounds[b].is_active /\ ~trivia_rounds'[b].is_active
                 /\ trivia_submissions[b] # {}) =>
                /\ b = sessions.current_box
                /\ slot_state'[b].exists
                /\ slot_state'[b].slot_user_id \in
                      {r.user_id : r \in trivia_submissions[b]}
                /\ slot_state'[b].turns_left = 0
                /\ slot_state'[b].pending_action = NoAction
          /\ slot_state'[b].slot_user_id # slot_state[b].slot_user_id =>
                trivia_rounds[b].is_active /\ ~trivia_rounds'[b].is_active
          /\ (~trivia_rounds[b].is_active /\ trivia_rounds'[b].is_active) =>
                trivia_submissions'[b] = {}]_vars

\* A round with a submission is about to be resolved again while the holder of
\* the box has turns and a pending action
C10_Witness ==
    \E b \in Boxes :
        /\ trivia_rounds[b].is_active
        /\ trivia_submissions[b] # {}
        /\ slot_state[b].slot_user_id # NULL
        /\ slot_state[b].turns_left > 0
        /\ slot_state[b].pending_action # NoAction

\* ------------------------------------------------------------ a resolution without answers
\* C11: the resolution of an active round that has no submission assigns no
\* slot: the box's slot_user_id, turns_left and pending_action are after the
\* step what they were before it, and only is_active of the round changes.
C11_EmptyResolveKeepsSlot ==
    [][\A b \in Boxes :
          (trivia_rounds[b].is_active /\ ~trivia_rounds'[b].is_active
              /\ trivia_submissions[b] = {}) =>
             /\ slot_state'[b].slot_user_id = slot_state[b].slot_user_id
             /\ slot_state'[b].turns_left = slot_state[b].turns_left
             /\ slot_state'[b].pending_action = slot_state[b].pending_action]_vars

\* ------------------------------------------------------------ a publish
\* C12: the publish of a question leaves the round of its box existing and
\* active with the previewed answer and the box without any submission, so that
\* in an active round without submissions every registered participant can
\* submit; a round that becomes active starts without submissions.
C12_PublishClears ==
    /\ [][\A b \in Boxes :
             /\ (\E v \in views : v.box_id = b /\ q_on_publish(v)) =>
                   /\ trivia_rounds'[b].exists
                   /\ trivia_rounds'[b].is_active
                   /\ \E v \in views : v.kind = "q" /\ v.box_id = b
                                          /\ trivia_rounds'[b].answer_int = v.ans
                   /\ trivia_submissions'[b] = {}
             /\ (~trivia_rounds[b].is_active /\ trivia_rounds'[b].is_active) =>
                   trivia_submissions'[b] = {}]_vars
    /\ [](\A b \in Boxes :
             (trivia_rounds[b].is_active /\ trivia_submissions[b] = {}
                 /\ sessions.is_locked /\ txs = {}) =>
                \A u \in participants :
                   ENABLED NumericAnswerModal_on_submit(
                              b, u, [form |-> "digits", n |-> trivia_rounds[b].answer_int], 1))

\* A question is active again without submissions in a box whose earlier round
\* was answered and resolved: the publish removed the rows of that round
C12_Witness ==
    \E b \in Boxes :
        /\ trivia_rounds[b].is_active
        /\ trivia_submissions[b] = {}
        /\ slot_state[b].slot_user_id # NULL

\* ------------------------------------------------------------ the ordering answer
\* C13: /wib order is accepted only for an existing active ordering round of
\* the current box and only from the user the round was bound to when it was
\* published; it ends the round, a round ends by nothing else, and an ended
\* round is active again only by a publish: a published round is answered at
\* most once.
C13_OrderOnlyBoundUser ==
    [][LET b == sessions.current_box
           orow == order_rounds[b]
       IN  /\ \A u \in Users :
                 (\E typed \in OrderInputs(orow.correct_order) : order(u, typed)) =>
                    /\ orow.exists
                    /\ orow.is_active
                    /\ u = orow.slot_user_id
                    /\ ~order_rounds'[b].is_active
           /\ \A c \in Boxes :
                 /\ (order_rounds[c].is_active /\ ~order_rounds'[c].is_active) =>
                       /\ c = b
                       /\ \E typed \in OrderInputs(orow.correct_order) :
                             order(orow.slot_user_id, typed)
                 /\ (~order_rounds[c].is_active /\ order_rounds'[c].is_active) =>
                       \E v \in views : order_on_publish(v)]_vars

\* An ordering round was answered by the user it is bound to while another
\* user held the slot of its box: the holder was "any other user" for it
C13_Witness ==
    \E b \in Boxes :
        /\ order_rounds[b].exists
        /\ ~order_rounds[b].is_active
        /\ slot_state[b].slot_user_id # NULL
        /\ slot_state[b].slot_user_id # order_rounds[b].slot_user_id
        /\ slot_state[b].turns_left > 0

\* ------------------------------------------------------------ the turns of an answer
\* C14: an accepted /wib order awards as many turns as there are places, of
\* the five, where the letter submitted is the label of the item the key has in
\* that place; the number, 0 included, becomes turns_left of the current box,
\* the round is no longer active and pending_action is cleared.
C14_OrderTurns ==
    [][LET b == sessions.current_box
           key == order_rounds[b].correct_order
       IN  \A u \in Users : \A typed \in OrderInputs(key) :
              order(u, typed) =>
                 /\ slot_state'[b].turns_left =
                       Cardinality({i \in 1 .. 5 : Upper(typed[i]) = Labels[key[i] + 1]})
                 /\ slot_state'[b].turns_left \in 0 .. 5
                 /\ slot_state'[b].pending_action = NoAction
                 /\ slot_state'[b].slot_user_id = slot_state[b].slot_user_id
                 /\ ~order_rounds'[b].is_active]_vars

\* A round was answered with three places right, and no card was played since
C14_Witness ==
    \E b \in Boxes :
        /\ order_rounds[b].exists
        /\ ~order_rounds[b].is_active
        /\ slot_state[b].turns_left = 3
        /\ Revealed(b) = {}

\* ------------------------------------------------------------ the check of an attempt
\* C15: /wib check_puzzle runs only when the current box has an unchecked
\* attempt; it takes the unchecked attempt of greatest attempt_id, stores as its
\* score_positions the number of places, of the three, where its word is the
\* phrase's, and marks it checked, touching no other row; a checked row is
\* never changed again, and rows change by nothing but a check.
C15_CheckLatestUnchecked ==
    [][LET cb == sessions.current_box
       IN  /\ (\E w \in Users \cup {NULL} : check_puzzle(w)) =>
                 /\ \E i \in 1 .. Len(puzzle_attempts[cb]) : ~puzzle_attempts[cb][i].checked
                 /\ puzzle_attempts'[cb] # puzzle_attempts[cb]
           /\ \A b \in Boxes :
                 /\ Len(puzzle_attempts'[b]) >= Len(puzzle_attempts[b])
                 /\ \A i \in 1 .. Len(puzzle_attempts[b]) :
                       LET old == puzzle_attempts[b][i]
                           new == puzzle_attempts'[b][i]
                       IN  /\ old.checked => new = old
                           /\ new # old =>
                                 /\ b = cb
                                 /\ \E w \in Users \cup {NULL} : check_puzzle(w)
                                 /\ \A j \in 1 .. Len(puzzle_attempts[b]) :
                                       /\ ~puzzle_attempts[b][j].checked =>
                                             puzzle_attempts[b][j].attempt_id <= old.attempt_id
                                       /\ j # i => puzzle_attempts'[b][j] = puzzle_attempts[b][j]
                                 /\ new = [old EXCEPT
                                       !.checked = TRUE,
                                       !.score_positions = Cardinality(
                                           {n \in 1 .. 3 :
                                               old.g[n] = box_secrets[b].phrase[n]})]]_vars

\* The later of two attempts of a box was checked with one place wrong while
\* the earlier one is still unchecked
C15_Witness ==
    \E b \in Boxes :
        /\ Len(puzzle_attempts[b]) >= 2
        /\ ~puzzle_attempts[b][1].checked
        /\ puzzle_attempts[b][2].checked
        /\ puzzle_attempts[b][2].score_positions = 2

\* ------------------------------------------------------------ a solved puzzle
\* C16: a check that scores 3 leaves the current box with turns_left 0, no
\* pending_action and a checked attempt of score 3, which is what /wib open_box
\* asks for; the box keeps that attempt, so it stays ready to open while it is
\* the current box, and the current box changes by nothing but /wib open_box.
C16_SolvedReadyToOpen ==
    /\ [][LET cb == sessions.current_box
          IN  /\ ((\E w \in Users \cup {NULL} : check_puzzle(w))
                     /\ \E i \in 1 .. Len(puzzle_attempts[cb]) :
                           /\ ~puzzle_attempts[cb][i].checked
                           /\ puzzle_attempts'[cb][i].checked
                           /\ puzzle_attempts'[cb][i].score_positions = 3) =>
                    /\ slot_state'[cb].turns_left = 0
                    /\ slot_state'[cb].pending_action = NoAction
                    /\ slot_state'[cb].slot_user_id = slot_state[cb].slot_user_id
                    /\ Solved(cb)' # {}
                    /\ sessions' = sessions
              /\ \A b \in Boxes : Solved(b) # {} => Solved(b)' # {}
              /\ sessions'.current_box # cb => open_box /\ Solved(cb) # {}]_vars
    /\ [](LET cb == sessions.current_box
          IN  /\ ENABLED open_box => Solved(cb) # {}
              /\ (Solved(cb) # {} /\ txs = {} /\ sessions.opened_boxes_count < MaxOpened)
                    => ENABLED open_box)

\* The current box is solved after a card of it was played, its holder has no
\* turn and no pending action left, the prize is entered and the box not opened
C16_Witness ==
    LET cb == sessions.current_box
    IN  /\ Solved(cb) # {}
        /\ Revealed(cb) # {}
        /\ slot_state[cb].slot_user_id # NULL
        /\ slot_state[cb].turns_left = 0
        /\ slot_state[cb].pending_action = NoAction
        /\ cb \in prizes
        /\ box_ownership[cb] = NULL

\* ------------------------------------------------------------ the next closest attempt
\* C17: a check that scores less than 3 while the box has other unchecked
\* attempts makes slot holder the author of one of them that no other of them
\* beats, an attempt beating another by more right places or, with as many, by an
\* earlier submitted_at_ms; the attempt just checked and those checked before
\* are not among them.
C17_NextClosest ==
    [][LET cb == sessions.current_box
           places(a) == Cardinality({n \in 1 .. 3 : a.g[n] = box_secrets[cb].phrase[n]})
       IN  \A i \in 1 .. Len(puzzle_attempts[cb]) :
              LET others == {puzzle_attempts[cb][j] :
                                j \in {k \in 1 .. Len(puzzle_attempts[cb]) :
                                          k # i /\ ~puzzle_attempts[cb][k].checked}}
              IN  ((\E w \in Users \cup {NULL} : check_puzzle(w))
                      /\ ~puzzle_attempts[cb][i].checked
                      /\ puzzle_attempts'[cb][i].checked
                      /\ puzzle_attempts'[cb][i].score_positions < 3
                      /\ others # {}) =>
                     \E a \in others :
                        /\ slot_state'[cb].slot_user_id = a.user_id
                        /\ \A o \in others :
                              \/ places(a) > places(o)
                              \/ places(a) = places(o)
                                    /\ a.submitted_at_ms <= o.submitted_at_ms]_vars

\* The last of three attempts was checked and found wrong; of the two left,
\* submitted by two users in the same millisecond, the second has more right
\* places, and its author holds the slot in place of the author of the last
C17_Witness ==
    \E b \in Boxes :
        /\ Len(puzzle_attempts[b]) = 3
        /\ puzzle_attempts[b][3].checked
        /\ puzzle_attempts[b][3].score_positions < 3
        /\ ~puzzle_attempts[b][1].checked
        /\ ~puzzle_attempts[b][2].checked
        /\ puzzle_attempts[b][1].user_id # puzzle_attempts[b][2].user_id
        /\ puzzle_attempts[b][1].submitted_at_ms = puzzle_attempts[b][2].submitted_at_ms
        /\ Cardinality({n \in 1 .. 3 : puzzle_attempts[b][1].g[n] = box_secrets[b].phrase[n]})
              < Cardinality({n \in 1 .. 3 :
                                puzzle_attempts[b][2].g[n] = box_secrets[b].phrase[n]})
        /\ slot_state[b].slot_user_id = puzzle_attempts[b][2].user_id
        /\ puzzle_attempts[b][3].user_id # puzzle_attempts[b][2].user_id

\* ------------------------------------------------------------ the last wrong attempt
\* C18: a check that scores less than 3 while the box has no other unchecked
\* attempt leaves the box without a slot holder (slot_user_id NULL), and the
\* box gets a holder again only by the resolution of a trivia round.
C18_LastWrongClearsHolder ==
    [][LET cb == sessions.current_box
       IN  /\ \A i \in 1 .. Len(puzzle_attempts[cb]) :
                 ((\E w \in Users \cup {NULL} : check_puzzle(w))
                     /\ ~puzzle_attempts[cb][i].checked
                     /\ puzzle_attempts'[cb][i].checked
                     /\ puzzle_attempts'[cb][i].score_positions < 3
                     /\ \A j \in 1 .. Len(puzzle_attempts[cb]) :
                           j # i => puzzle_attempts[cb][j].checked) =>
                    slot_state'[cb].slot_user_id = NULL
           /\ (slot_state[cb].slot_user_id = NULL /\ slot_state'[cb].slot_user_id # NULL) =>
                 trivia_rounds[cb].is_active /\ ~trivia_rounds'[cb].is_active]_vars

\* ------------------------------------------------------------ who submits a guess
\* C19: while the Submit Puzzle button of the current box is up, every
\* registered participant, slot holder or not and whatever the turns and the
\* pending action of the box, gets the guess form on pressing it, and a form
\* sent with three words appends an attempt.
C19_AnyParticipantSubmits ==
    \A v \in views :
        /\ (v.kind = "puzzle" /\ v.box_id = sessions.current_box) =>
              \A u \in participants : ENABLED submit_puzzle(v, u)
        /\ (v.kind = "puzzle_modal" /\ v.box_id = sessions.current_box /\ txs = {}
               /\ Len(puzzle_attempts[v.box_id]) < MaxAttempts) =>
              \A typed \in GuessInputs(v.box_id) :
                 ENABLED PuzzleModal_on_submit(v, typed,
                                               MaxOf(Stamps(AttemptRows(v.box_id))) + 1)

\* ------------------------------------------------------------ attempt ids
\* C20: in every box the attempts carry the ids 1..n in the order they were
\* submitted; a submission adds one row, whose attempt_id is the greatest id of
\* the box so far plus 1 (1 in a box without attempts), and leaves the rows of
\* the box as they were, whatever else runs between two submissions.
C20_AttemptIds ==
    /\ [](\A b \in Boxes : \A i \in 1 .. Len(puzzle_attempts[b]) :
             /\ puzzle_attempts[b][i].attempt_id = i
             /\ \A j \in 1 .. Len(puzzle_attempts[b]) :
                   i < j => puzzle_attempts[b][i].submitted_at_ms
                               <= puzzle_attempts[b][j].submitted_at_ms)
    /\ [][\A b \in Boxes :
             LET n == Len(puzzle_attempts[b])
                 ids == {puzzle_attempts[b][i].attempt_id : i \in 1 .. n}
             IN  /\ Len(puzzle_attempts'[b]) \in {n, n + 1}
                 /\ Len(puzzle_attempts'[b]) = n + 1 =>
                       /\ SubSeq(puzzle_attempts'[b], 1, n) = puzzle_attempts[b]
                       /\ puzzle_attempts'[b][n + 1].attempt_id =
                             IF ids = {} THEN 1
                             ELSE 1 + CHOOSE m \in ids : \A k \in ids : k <= m
                       /\ puzzle_attempts'[b][n + 1].attempt_id \notin ids]_vars

\* A box has three attempts, the first checked before the last one, by another
\* user, was submitted
C20_Witness ==
    \E b \in Boxes :
        /\ Len(puzzle_attempts[b]) = 3
        /\ puzzle_attempts[b][1].checked
        /\ ~puzzle_attempts[b][2].checked
        /\ ~puzzle_attempts[b][3].checked
        /\ puzzle_attempts[b][1].user_id # puzzle_attempts[b][3].user_id

\* ------------------------------------------------------------ the gate of open_box
\* C21: while the session's current box has no checked attempt of score 3,
\* /wib open_box does nothing: box_ownership and the session's
\* opened_boxes_count, eliminations_unlocked and current_box change only in a
\* step taken with such an attempt in the current box.
C21_OpenNeedsSolved ==
    /\ [](LET cb == sessions.current_box
          IN  (~\E a \in AttemptRows(cb) : a.checked /\ a.score_positions = 3) =>
                 ~ENABLED open_box)
    /\ [][LET cb == sessions.current_box
          IN  (box_ownership' # box_ownership \/ sessions' # sessions) =>
                 /\ open_box
                 /\ \E a \in AttemptRows(cb) : a.checked /\ a.score_positions = 3]_vars

\* Every attempt of the current box is checked and none is right: the box is
\* not opened and has no owner
C21_Witness ==
    LET cb == sessions.current_box
    IN  /\ puzzle_attempts[cb] # <<>>
        /\ \A a \in AttemptRows(cb) : a.checked /\ a.score_positions < 3
        /\ box_ownership[cb] = NULL
        /\ sessions.opened_boxes_count = cb - 1


\* C22: an opening by /wib open_box of the current box b is one step that makes
\* the author of the checked score-3 attempt of b with the highest attempt id
\* the owner of b, leaves the owners of the other boxes alone, adds exactly 1
\* to opened_boxes_count and moves current_box to min(6, b + 1); the count,
\* the current box and the owners change in no other step.
C22_OpenAssignsSolver ==
    [][LET b == sessions.current_box
           solved == {a \in AttemptRows(b) : a.checked /\ a.score_positions = 3}
       IN  (\/ sessions.opened_boxes_count' # sessions.opened_boxes_count
            \/ sessions.current_box' # sessions.current_box
            \/ box_ownership' # box_ownership) =>
               /\ open_box
               /\ \E a \in solved :
                      /\ \A o \in solved : o.attempt_id <= a.attempt_id
                      /\ box_ownership' = [box_ownership EXCEPT ![b] = a.user_id]
               /\ sessions.opened_boxes_count' = sessions.opened_boxes_count + 1
               /\ sessions.current_box' = IF b + 1 < 6 THEN b + 1 ELSE 6]_vars

\* Box b < 6 opened with two checked score-3 attempts of two users: the later
\* one's author owns it.
C22_Witness ==
    \E b \in 1 .. 5 : \E a, o \in AttemptRows(b) :
        /\ a.checked /\ a.score_positions = 3
        /\ o.checked /\ o.score_positions = 3
        /\ o.attempt_id < a.attempt_id
        /\ o.user_id # a.user_id
        /\ box_ownership[b] = a.user_id
        /\ sessions.opened_boxes_count = b
        /\ sessions.current_box = b + 1


C24_EliminationsUnlocked ==
    /\ [](sessions.exists =>
              (sessions.eliminations_unlocked <=> sessions.opened_boxes_count >= 3))
    /\ [][/\ sessions.eliminations_unlocked => sessions.eliminations_unlocked'
          /\ (~sessions.eliminations_unlocked /\ sessions.eliminations_unlocked') =>
                 /\ open_box
                 /\ sessions.opened_boxes_count = 2
                 /\ sessions.opened_boxes_count' = 3]_vars

\* The third box has just been opened and the flag is on.
C24_Witness ==
    /\ sessions.opened_boxes_count = 3
    /\ sessions.current_box = 4
    /\ box_ownership[3] # NULL
    /\ sessions.eliminations_unlocked


\* C25: once box 6 has an owner the session is over: no later step opens a
\* box (the owners and the sessions row stay as they are), so no box is opened
\* twice, and opened_boxes_count is never above 6.
C25_Box6Terminal ==
    /\ [](sessions.opened_boxes_count <= 6)
    /\ [][box_ownership[6] # NULL =>
              /\ box_ownership' = box_ownership
              /\ sessions' = sessions]_vars


\* C26: the participants change only in a press of Join taken with a session
\* row whose is_locked is off; a locked session stays locked, /wib lock is
\* refused on it, and its participants change in no later step.
C26_LockedRegistration ==
    /\ [](sessions.is_locked => \A seed \in Seeds : ~ENABLED lock(seed))
    /\ [][/\ participants' # participants =>
                 /\ sessions.exists
                 /\ ~sessions.is_locked
                 /\ \E u \in Users : join_button(u)
          /\ sessions.is_locked =>
                 /\ sessions.is_locked'
                 /\ participants' = participants]_vars

\* A locked session whose Join button is still posted, with someone registered
\* and someone not.
C26_Witness ==
    /\ sessions.is_locked
    /\ lobby
    /\ participants # {}
    /\ participants # Users


\* C27: a press of a Steal button that is carried out takes a box of 1..5 that
\* has an owner other than the holder of the current box's slot, makes that
\* holder its owner, changes no other owner and clears the slot's pending
\* action; a press on a box the holder owns when it is pressed is refused; box
\* 6 and the boxes without an owner keep their (missing) owner.
C27_StealResolution ==
    /\ [](\A v \in views : \A b \in Boxes :
             (/\ v.kind = "steal"
              /\ box_ownership[b] # NULL
              /\ box_ownership[b] = slot_state[sessions.current_box].slot_user_id)
                 => ~ENABLED StealButton_callback(v, b))
    /\ [][\A v \in views : \A b \in Boxes :
             StealButton_callback(v, b) =>
                LET holder == slot_state[sessions.current_box].slot_user_id
                IN  /\ b \in 1 .. 5
                    /\ holder # NULL
                    /\ box_ownership[b] \notin {NULL, holder}
                    /\ box_ownership' = [box_ownership EXCEPT ![b] = holder]
                    /\ slot_state' = [slot_state EXCEPT
                                         ![sessions.current_box].pending_action = NoAction]]_vars


\* C28: a choice of recipient in the donate form is carried out only while
\* current_box is 6 and the slot's pending action is DONATE; it then gives one
\* box of 1..5 owned at that moment by the slot holder to a participant other
\* than the holder, changes no other owner and clears the pending action.
C28_DonateResolution ==
    [][\A v \in views : \A target_id \in Users :
          RecipientSelect_callback(v, target_id) =>
             LET slot == slot_state[sessions.current_box]
             IN  /\ sessions.current_box = 6
                 /\ slot.pending_action = "DONATE"
                 /\ v.chosen_box \in 1 .. 5
                 /\ box_ownership[v.chosen_box] = slot.slot_user_id
                 /\ target_id \in participants \ {slot.slot_user_id}
                 /\ box_ownership' = [box_ownership EXCEPT ![v.chosen_box] = target_id]
                 /\ slot_state' = [slot_state EXCEPT
                                      ![sessions.current_box].pending_action = NoAction]]_vars


C30_RejectedKeepsState ==
    /\ [][\A seed \in Seeds, salt \in Salts :
              (wib_q(seed, salt) /\ ~(sessions.exists /\ sessions.is_locked))
                 => UNCHANGED dbvars]_vars
    /\ [](\A u \in Users :
             \A typed \in OrderInputs(order_rounds[sessions.current_box].correct_order) :
                (\/ ~ValidOrder([i \in 1 .. Len(typed) |-> Upper(typed[i])])
                 \/ ~(sessions.exists /\ sessions.is_locked)
                 \/ ~order_rounds[sessions.current_box].is_active
                 \/ u # order_rounds[sessions.current_box].slot_user_id)
                    => ~ENABLED order(u, typed))
    /\ [](\A b \in Boxes, u \in Users : \A typed \in TypedNumbers(Guesses(b)) :
             (\/ ~norm_num(typed).valid
              \/ ~(sessions.exists /\ sessions.is_locked)
              \/ u \notin participants
              \/ ~trivia_rounds[b].is_active
              \/ \E r \in trivia_submissions[b] : r.user_id = u)
                 => ~ENABLED NumericAnswerModal_on_submit(b, u, typed, 1))
    /\ [](\A u \in Users, idx \in 0 .. MaxIdx : \A chosen \in WildcardEffects(6) \cup {"-"} :
             LET slot == slot_state[sessions.current_box]
             IN  (\/ ~sessions.exists
                  \/ slot.slot_user_id # u
                  \/ slot.turns_left = 0
                  \/ slot.pending_action # NoAction
                  \/ idx \in box_secrets[sessions.current_box].revealed)
                     => ~ENABLED CardButton_callback(u, idx, chosen))


\* C31: the deck of every box secret has 10 cards with a PIECE card for each
\* of W1, W2 and W3; the deck of box 1 holds PIECE and PASS cards only, the
\* decks of boxes 2..5 PIECE, PASS and STEAL cards only, so DONATE and WILDCARD
\* cards are in the deck of box 6 alone; and no step changes the phrase or the
\* deck of a box secret that exists.
C31_DeckComposition ==
    /\ [](\A b \in Boxes : box_secrets[b].exists =>
             LET deck == box_secrets[b].deck
                 types == {deck[i].type : i \in 1 .. Len(deck)}
             IN  /\ Len(deck) = 10
                 /\ \A w \in {"W1", "W2", "W3"} :
                        \E i \in 1 .. Len(deck) :
                           deck[i].type = "PIECE" /\ deck[i].reveal = w
                 /\ b = 1 => types \subseteq {"PIECE", "PASS"}
                 /\ b \in 2 .. 5 => types \subseteq {"PIECE", "PASS", "STEAL"}
                 /\ types \subseteq {"PIECE", "PASS", "STEAL", "DONATE", "WILDCARD"})
    /\ [][\A b \in Boxes : box_secrets[b].exists =>
              /\ box_secrets'[b].exists
              /\ box_secrets'[b].phrase = box_secrets[b].phrase
              /\ box_secrets'[b].deck = box_secrets[b].deck]_vars

\* A session at box 6 whose deck has a DONATE and a WILDCARD card, its box-1
\* deck a PASS card and its box-5 deck a STEAL card, the secret of box 6
\* written by the opening of box 5.
C31_Witness ==
    /\ sessions.current_box = 6
    /\ box_ownership[5] # NULL
    /\ opening = {}
    /\ puzzle_attempts[6] = <<>>
    /\ box_secrets[6].exists
    /\ \E i, j \in 1 .. 10 : /\ box_secrets[6].deck[i].type = "DONATE"
                             /\ box_secrets[6].deck[j].type = "WILDCARD"
    /\ \E i \in 1 .. 10 : box_secrets[1].deck[i].type = "PASS"
    /\ \E i \in 1 .. 10 : box_secrets[5].deck[i].type = "STEAL"


C33_RevealFrame ==
    [][\A t \in txs : CardButton_commit(t) =>
          LET b == t.box_id
              card == box_secrets[b].deck[t.idx + 1]
          IN  /\ t.idx \notin box_secrets[b].revealed
              /\ box_secrets' = [box_secrets EXCEPT
                                    ![b].revealed = box_secrets[b].revealed \cup {t.idx}]
              /\ slot_state'[b].turns_left = slot_state[b].turns_left - 1
              /\ card.type = "PIECE" =>
                     /\ slot_state' = [slot_state EXCEPT
                                          ![b].turns_left = slot_state[b].turns_left - 1]
                     /\ UNCHANGED <<sessions, participants, prizes, box_ownership,
                                    trivia_rounds, trivia_submissions, order_rounds,
                                    puzzle_attempts>>]_vars

\* C33 (amended): a card press that is carried out adds the pressed index, and
\* nothing else, to the revealed set and leaves turns_left exactly 1 lower,
\* except for a WILDCARD resolved as BONUS_TURN, which gives the turn back
\* (turns_left as before, no pending action); for a PIECE card nothing else
\* changes.
C33_RevealFrameBonus ==
    [][\A t \in txs : CardButton_commit(t) =>
          LET b == t.box_id
              card == box_secrets[b].deck[t.idx + 1]
          IN  /\ t.idx \notin box_secrets[b].revealed
              /\ box_secrets' = [box_secrets EXCEPT
                                    ![b].revealed = box_secrets[b].revealed \cup {t.idx}]
              /\ \/ slot_state'[b].turns_left = slot_state[b].turns_left - 1
                 \/ /\ card.type = "WILDCARD"
                    /\ slot_state'[b].pending_action = NoAction
                    /\ slot_state'[b].turns_left = slot_state[b].turns_left
              /\ card.type # "WILDCARD" =>
                     slot_state'[b].turns_left = slot_state[b].turns_left - 1
              /\ card.type = "PIECE" =>
                     /\ slot_state' = [slot_state EXCEPT
                                          ![b].turns_left = slot_state[b].turns_left - 1]
                     /\ UNCHANGED <<sessions, participants, prizes, box_ownership,
                                    trivia_rounds, trivia_submissions, order_rounds,
                                    puzzle_attempts>>]_vars

\* The holder of the current box has revealed one card, a PIECE, and nothing
\* else: a turn is gone, no action is pending.
C33_Witness ==
    LET b == sessions.current_box
    IN  /\ txs = {}
        /\ \E i \in 0 .. MaxIdx :
               /\ box_secrets[b].revealed = {i}
               /\ box_secrets[b].deck[i + 1].type = "PIECE"
        /\ slot_state[b].slot_user_id # NULL
        /\ slot_state[b].turns_left \in 1 .. (MaxTurns - 1)
        /\ slot_state[b].pending_action = NoAction


\* C34: a choice in the PASS form that is carried out makes the chosen user, a
\* participant other than the holder of the current box's slot before the
\* step, the holder of that slot, with no turns and no pending action, and
\* changes no owner of a box.
C34_PassResolution ==
    [][\A v \in views : \A target_id \in Users :
          PassSelect_callback(v, target_id) =>
             LET b == sessions.current_box
             IN  /\ target_id \in participants
                 /\ target_id # slot_state[b].slot_user_id
                 /\ slot_state' = [slot_state EXCEPT
                                      ![b] = [exists |-> TRUE, slot_user_id |-> target_id,
                                              turns_left |-> 0,
                                              pending_action |-> NoAction]]
                 /\ box_ownership' = box_ownership]_vars

\* C35: a step of one of the three resolutions (the PASS select, a Steal button,
\* the DONATE recipient select) that changes the state is taken only while the
\* pending action of the current box's slot is of that kind and the user who
\* presses, the one the form was drawn for, is the holder of that slot.
C35_ResolutionGuarded ==
    [][\A v \in views :
          LET slot == slot_state[sessions.current_box]
              Guarded(kind) == /\ slot.pending_action = kind
                               /\ slot.slot_user_id = v.slot_user_id
          IN  /\ (\E u \in Users : PassSelect_callback(v, u)) => Guarded("PASS")
              /\ (\E b \in Boxes : StealButton_callback(v, b)) => Guarded("STEAL")
              /\ (\E u \in Users : RecipientSelect_callback(v, u)) => Guarded("DONATE")]_vars

\* C36: whenever the slot of the current box has a pending action and no reveal
\* is in flight, the command of that action draws its form, and a form drawn
\* for that slot has at least one target whose choice is carried out.
C36_PendingResolvable ==
    LET box_id == sessions.current_box
        slot == slot_state[box_id]
        Drawn(kind) == {v \in views : /\ v.kind = kind
                                      /\ v.box_id = box_id
                                      /\ v.slot_user_id = slot.slot_user_id}
    IN  (sessions.exists /\ slot.exists /\ txs = {}) =>
           /\ slot.pending_action = "PASS" =>
                 /\ ENABLED pass_show
                 /\ \A v \in Drawn("pass") :
                       \E u \in Users : ENABLED PassSelect_callback(v, u)
           /\ slot.pending_action = "STEAL" =>
                 /\ ENABLED steal_show
                 /\ \A v \in Drawn("steal") :
                       \E b \in Boxes : ENABLED StealButton_callback(v, b)
           /\ slot.pending_action = "DONATE" =>
                 /\ ENABLED donate_show
                 /\ \A v \in Drawn("donate") :
                       /\ \E b \in Boxes : v.chosen_box = b \/ ENABLED BoxSelect_callback(v, b)
                       /\ v.chosen_box # 0 =>
                             \E u \in Users : ENABLED RecipientSelect_callback(v, u)

\* C37: every /wib order that is accepted is sent by the user who holds the slot
\* of the current box at that moment, and in every reachable state a slot with
\* turns left has a holder.
C37_OrderByHolder ==
    /\ [](\A b \in Boxes : slot_state[b].turns_left > 0 => slot_state[b].slot_user_id # NULL)
    /\ [][\A u \in Users :
             (\E typed \in CardOrderInputs(order_rounds[sessions.current_box].correct_order) :
                 order(u, typed))
                => u = slot_state[sessions.current_box].slot_user_id]_vars

\* C38: a step that records a trivia submission records it for the current box,
\* and a step that makes a trivia round or an ordering round active makes the
\* round of the current box active; no such step touches a box opened before.
C38_CurrentBoxOnly ==
    [][\A b \in Boxes :
          /\ trivia_submissions'[b] \ trivia_submissions[b] # {} => b = sessions.current_box
          /\ (trivia_rounds'[b] # trivia_rounds[b] /\ trivia_rounds'[b].is_active)
                => b = sessions.current_box
          /\ (order_rounds'[b] # order_rounds[b] /\ order_rounds'[b].is_active)
                => b = sessions.current_box]_vars

\* C39: in every reachable state in which the session is locked, the secret
\* and the slot row of the current box exist.
C39_LockedHasSecret ==
    (sessions.exists /\ sessions.is_locked) =>
        /\ box_secrets[sessions.current_box].exists
        /\ slot_state[sessions.current_box].exists

\* C40: in every reachable state the boxes that have an owner are the boxes
\* opened so far (the ones below current_box, and box 6 once it was opened),
\* each owner is a registered participant, and a Steal press or a DONATE choice
\* leaves the set of owned boxes as it was.
C40_OwnedAreOpened ==
    /\ [](LET owned == {b \in Boxes : box_ownership[b] # NULL}
              opened == {b \in Boxes : b < sessions.current_box}
                           \cup (IF sessions.current_box = 6
                                    /\ sessions.opened_boxes_count >= 6
                                 THEN {6} ELSE {})
          IN  sessions.exists =>
                 /\ owned = opened
                 /\ \A b \in owned : box_ownership[b] \in participants)
    /\ [][\A v \in views :
             ((\E b \in Boxes : StealButton_callback(v, b))
                 \/ (\E u \in Users : RecipientSelect_callback(v, u)))
                => {b \in Boxes : box_ownership'[b] # NULL}
                      = {b \in Boxes : box_ownership[b] # NULL}]_vars

\* Box 2 was opened after its holder had stolen box 1 from user 1.
C40_Witness ==
    /\ sessions.current_box = 3
    /\ box_ownership[1] = 2
    /\ box_ownership[2] # NULL

====
